---- MODULE Spec2Model ----
(***************************************************************************)
(* RFCrack: the payload codec, the signal classifier, the de Bruijn        *)
(* generator, the capture session, the dual-radio rolling-code session and *)
(* the frequency scanners, modelled from the Python sources                *)
(* (src/src/RFFunctions.py, src/src/jam.py, src/src/attacks.py,            *)
(* src/src/utilities.py, src/src/findDevices.py, src/RFCrack.py).          *)
(*                                                                         *)
(* A hex string is a sequence of hex digits 0..15, a bit string a sequence *)
(* of 0/1, a bytes object a sequence of 0..255.                            *)
(*                                                                         *)
(* Four specifications:                                                    *)
(*   Spec         one run of RFCrack.py with -r (rolling code), -j (jam)   *)
(*                or -D (de Bruijn attack)                                 *)
(*   SpecCapture  capturePayload in rolling-code mode, called on its own   *)
(*   SpecScan     one run of searchKnownFreqs or of bruteForceFreq         *)
(*   SpecCodec    one call of a pure function on an input of a bounded set *)
(***************************************************************************)
EXTENDS Integers, Sequences, FiniteSets, TLC

VARIABLES
    \* ---- the run of RFCrack.py (Spec) ----
    pc,               \* position of the main script / rollingCode / jamming / capturePayload
    session,          \* "rolling" (-r), "jammer" (-j), "debruijn" (-D), "capture", "known", "brute"
    rolling_code,     \* args.rolling_code
    rf_settings,      \* the RFSettings object
    jamming_variance, \* the jamming_variance argument of jamming()
    j,                \* the jam handle: "unset", "RfCat" or "None"
    j_idx,            \* the dongle the jam handle was opened on (NoDevice: none)
    attempt,          \* jamming(): the for-loop variable
    jam_xmits,        \* number of jam frames RFxmit has sent
    j_freq,           \* frequency the jam radio was last tuned to (0: never)
    d_freq,           \* frequency the sniff radio was last tuned to (0: never)
    capture,          \* capturePayload(): capture
    signal_strength,  \* capturePayload(): signal_strength (Unbound before the first frame)
    roll_captures,    \* capturePayload(): roll_captures
    roll_count,       \* capturePayload(): roll_count
    payloads,         \* rollingCode(): payloads
    d_sent,           \* the byte strings RFxmit has sent on the sniff radio, in order
    replay,           \* replaySavedCapture(): payloads, and what it has transmitted
    saved,            \* text written to the .cap file (<<>>: nothing written)
    \* ---- history of the run ----
    trace,            \* the radio commands, accepts and console reports, in order
    arrivals,         \* the frames d.RFrecv() returned, in order
    timeouts,         \* number of d.RFrecv() calls that timed out
    capture_from,     \* index in arrivals of the frame `capture` holds (0: none)
    prompts,          \* capturePayload(): each question put to the operator and the answer
    roll_from,        \* for each entry of roll_captures, the index in arrivals it came from
    \* ---- calls of the pure functions (SpecCodec) ----
    call,             \* the function called last ("none" before the first call)
    arg,              \* its argument
    ret,              \* its result
    \* ---- the operator's terminal ----
    stop_key,         \* Enter was pressed and is pending on stdin: what keystop() reports
    response,         \* the last answer read with input() ("" before the first)
    \* ---- findDevices: the frequency scanners ----
    known_frequencies,\* searchKnownFreqs: the list scanned
    interval,         \* bruteForceFreq: the increment
    current_freq,     \* bruteForceFreq: the frequency to sniff next
    scan_pos,         \* searchKnownFreqs: position of the for loop in the list (0: not in a pass)
    scan_log,         \* the blocks saveLogs appended to the log file
    \* ---- history of the receive loops ----
    sniffed,          \* the frequencies sniffFrequency was called with, in order
    click_log,        \* blocks appended to ./captures/capturedClicks.log
    tuned,            \* the frequency the sniff radio was tuned to at each of these receives
    after_stop        \* number of d.RFrecv calls started while stop_key was already set

runVars  == <<pc, session, rolling_code, rf_settings, jamming_variance, j, j_idx,
              attempt,
              jam_xmits, j_freq, d_freq, capture, signal_strength, roll_captures,
              roll_count, payloads, d_sent, saved, replay>>
histVars == <<trace, arrivals, timeouts, capture_from, roll_from, prompts>>
callVars == <<call, arg, ret>>
scanVars == <<known_frequencies, interval, current_freq, scan_pos, scan_log, sniffed,
              tuned, click_log>>
keyVars  == <<stop_key, response>>
vars     == <<runVars, histVars, callVars, scanVars, keyVars, after_stop>>

-----------------------------------------------------------------------------
(* Bounds of the model *)

\* d.RFrecv() calls of one capture session
MaxRecv == 4
\* jam frames sent by one jamming(start)
MaxJamXmit == 1
\* longest capture string given to splitCaptureByZeros
MaxStrLen == 8
\* the scanners: receives made in one run, and the longest list of known frequencies
MaxScanRecv == 4
MaxKnown == 2
\* longest hex payload (in bytes, two digits each) given to createBytesFromPayloads
MaxHexBytes == 1
\* generate_de_bruijn_sequence(k, n): largest arity k, largest subsequence length n,
\* largest working array (k * n cells) and longest explicit symbol string
MaxArity == 4
MaxSubLen == 4
MaxCells == 8
MaxSymbols == 3
\* longest payload given to printFormatedHex, longest bit string given to turnToBytes
MaxFormatLen == 4
\* most lines in a device template
MaxTemplateLines == 3
MaxBits == 10

-----------------------------------------------------------------------------
(* Program constants *)

DefaultFrequency == 315000000
DefaultJammingVariance == 80000
DefaultUpperRssi == -100
DefaultLowerRssi == -20
DefaultBaudRate == 4800
DefaultChannelBandwidth == 60000
DefaultChannelSpacing == 24000
DefaultDeviation == 0
Retries == 3
\* the second entry of the default -f list; the -v value of the usage example
SecondKnownFrequency == 433000000
ExampleInterval == 500000
\* re.split('0000*', ...): three zeros followed by any number of zeros
ZeroRunDelimiter == 3
MinFragment == 5

-----------------------------------------------------------------------------
(* Payload codec: RFFunctions.py *)

RECURSIVE HexToInt(_)
\* int(payload, 16)
HexToInt(h) ==
    IF h = <<>> THEN 0
    ELSE 16 * HexToInt(SubSeq(h, 1, Len(h) - 1)) + h[Len(h)]

RECURSIVE IntToBin(_)
\* bin(n)[2:]: no fixed width, "0" for 0
IntToBin(n) ==
    IF n < 2 THEN <<n>>
    ELSE Append(IntToBin(n \div 2), n % 2)

RECURSIVE PadRight_AtFront(_)
\* mutant: the zero bits added in front
PadRight_AtFront(bits) ==
    IF Len(bits) % 8 = 0 THEN bits ELSE PadRight_AtFront(<<0>> \o bits)

RECURSIVE PadRight(_)
\* bitstring: "Up to seven zero bits will be added at the end to byte align"
PadRight(bits) ==
    IF Len(bits) % 8 = 0 THEN bits ELSE PadRight(Append(bits, 0))

ByteAt(bits, i) ==
    LET b(k) == bits[8 * (i - 1) + k]
    IN  128 * b(1) + 64 * b(2) + 32 * b(3) + 16 * b(4)
        + 8 * b(5) + 4 * b(6) + 2 * b(7) + b(8)

\* bitstring.BitArray(bin=binary).tobytes()
turnToBytes(binary) ==
    LET padded == PadRight(binary)
    IN  [i \in 1..(Len(padded) \div 8) |-> ByteAt(padded, i)]

\* the line feed among the characters of a text (the hex digits are 0..15)
NL == 16

\* int(payload, 16) skips the white space around the digits
StripNL(line) ==
    IF line # <<>> /\ line[Len(line)] = NL THEN SubSeq(line, 1, Len(line) - 1)
    ELSE line

createBytesFromPayloads(ps) ==
    [i \in 1..Len(ps) |-> turnToBytes(IntToBin(HexToInt(StripNL(ps[i]))))]

RECURSIVE readlines(_)
\* f.readlines(): the text cut after each line feed, the line feeds kept
readlines(text) ==
    IF text = <<>> THEN <<>>
    ELSE LET ends == {i \in 1..Len(text) : text[i] = NL}
         IN  IF ends = {} THEN <<text>>
             ELSE LET k == CHOOSE i \in ends : \A m \in ends : i <= m
                  IN  <<SubSeq(text, 1, k)>> \o readlines(SubSeq(text, k + 1, Len(text)))

\* mutant: the bounds themselves accepted (>= and <=)
determineRealTransmission_Inclusive(ss, settings) ==
    ss >= settings.upper_rssi /\ ss <= settings.lower_rssi

\* mutant: one bound passed is enough
determineRealTransmission_EitherBound(ss, settings) ==
    ss > settings.upper_rssi \/ ss < settings.lower_rssi

\* signal_strength > rf_settings.upper_rssi and signal_strength < rf_settings.lower_rssi
determineRealTransmission(ss, settings) ==
    ss > settings.upper_rssi /\ ss < settings.lower_rssi

RECURSIVE ZeroRun(_, _)
\* number of consecutive '0' characters of s from position i on
ZeroRun(s, i) ==
    IF i > Len(s) \/ s[i] # 0 THEN 0 ELSE 1 + ZeroRun(s, i + 1)

RECURSIVE SplitRuns(_, _, _, _, _)
\* re.split of s at the leftmost, longest runs of at least `minrun` zeros
SplitRuns(s, minrun, i, cur, out) ==
    IF i > Len(s) THEN Append(out, cur)
    ELSE IF ZeroRun(s, i) >= minrun
         THEN SplitRuns(s, minrun, i + ZeroRun(s, i), <<>>, Append(out, cur))
         ELSE SplitRuns(s, minrun, i + 1, Append(cur, s[i]), out)

RECURSIVE LongerThan(_, _)
\* the fragments with len(payload) > n, in order
LongerThan(frags, n) ==
    IF frags = <<>> THEN <<>>
    ELSE IF Len(Head(frags)) > n
         THEN <<Head(frags)>> \o LongerThan(Tail(frags), n)
         ELSE LongerThan(Tail(frags), n)

splitCaptureByZeros(c) ==
    LongerThan(SplitRuns(c, ZeroRunDelimiter, 1, <<>>, <<>>), MinFragment)

\* the character of a hex digit, as bytes.hex() writes it
HexChar(d) ==
    <<"0", "1", "2", "3", "4", "5", "6", "7", "8", "9", "a", "b", "c", "d", "e", "f">>[d + 1]

RECURSIVE FormatPairs(_, _)
\* for i in iterator: formatedPayload += ('\\x' + i + next(iterator))  -- from position i on
FormatPairs(payload, i) ==
    IF i > Len(payload) THEN <<>>
    ELSE <<"\\", "x", HexChar(payload[i]), HexChar(payload[i + 1])>>
         \o FormatPairs(payload, i + 2)

\* mutant: no test of the length, an odd payload formatted without its last digit
printFormatedHex_NoLengthTest(payload) ==
    FormatPairs(SubSeq(payload, 1, Len(payload) - (Len(payload) % 2)), 1)

\* printFormatedHex(payload): the result as a sequence of characters
printFormatedHex(payload) ==
    IF Len(payload) % 2 = 0 THEN FormatPairs(payload, 1) ELSE <<>>

-----------------------------------------------------------------------------
(* Device templates: RFSettings.py *)
(*                                                                         *)
(* A template line is a sequence of tokens: key names, ":", numerals,       *)
(* blanks, the newline and other words. A key is a substring of the line    *)
(* when it is one of its tokens.                                            *)

\* the keys in the order of the if / elif chain
TemplateKeys ==
    <<"frequency", "baud_rate", "channel_bandwidth", "modulation_type",
      "upper_rssi", "lower_rssi", "channel_spacing", "deviation">>

\* int(value) for the numerals of the template lines
IntOf ==
    [t \in {"433000000", "2400", "-60"} |->
        CASE t = "433000000" -> 433000000 [] t = "2400" -> 2400 [] t = "-60" -> 0 - 60]

\* key in data
Contains(data, key) == \E i \in 1..Len(data) : data[i] = key

\* the branch of the if / elif chain a line takes: the first key it contains (0: none)
MatchedKey(data) ==
    IF \E k \in 1..Len(TemplateKeys) : Contains(data, TemplateKeys[k])
    THEN CHOOSE k \in 1..Len(TemplateKeys) :
            /\ Contains(data, TemplateKeys[k])
            /\ \A m \in 1..(k - 1) : ~Contains(data, TemplateKeys[m])
    ELSE 0

RECURSIVE Strip(_)
\* value.strip()
Strip(v) ==
    IF v # <<>> /\ v[1] \in {" ", "\n"} THEN Strip(Tail(v))
    ELSE IF v # <<>> /\ v[Len(v)] \in {" ", "\n"} THEN Strip(SubSeq(v, 1, Len(v) - 1))
    ELSE v

\* mutant: the value returned as cut, white space and line feed kept
splitData_NoStrip(data) ==
    LET colons == {i \in 1..Len(data) : data[i] = ":"}
    IN  IF Cardinality(colons) # 1 THEN [raised |-> TRUE, value |-> <<>>]
        ELSE LET c == CHOOSE i \in colons : TRUE
             IN  [raised |-> FALSE, value |-> SubSeq(data, c + 1, Len(data))]

\* splitData(data): key, value = data.split(":"); two parts or ValueError
splitData(data) ==
    LET colons == {i \in 1..Len(data) : data[i] = ":"}
    IN  IF Cardinality(colons) # 1 THEN [raised |-> TRUE, value |-> <<>>]
        ELSE LET c == CHOOSE i \in colons : TRUE
             IN  [raised |-> FALSE, value |-> Strip(SubSeq(data, c + 1, Len(data)))]

\* one pass of the for loop: the settings after the line, or the exception
LoadLine(settings, data) ==
    LET k == MatchedKey(data)
        v == splitData(data)
    IN  IF k = 0 THEN [raised |-> FALSE, settings |-> settings]
        ELSE IF v.raised THEN [raised |-> TRUE, settings |-> settings]
        ELSE IF TemplateKeys[k] = "modulation_type"
             THEN [raised |-> FALSE,
                   settings |-> [settings EXCEPT !.modulation_type = v.value]]
        ELSE IF Len(v.value) = 1 /\ v.value[1] \in DOMAIN IntOf
             THEN [raised |-> FALSE,
                   settings |-> [settings EXCEPT ![TemplateKeys[k]] = IntOf[v.value[1]]]]
        ELSE [raised |-> TRUE, settings |-> settings]

RECURSIVE LoadFrom(_, _, _)
\* for data in file_data, from line i on; an exception ends the loop
LoadFrom(settings, file_data, i) ==
    IF i > Len(file_data) THEN [raised |-> FALSE, settings |-> settings]
    ELSE LET r == LoadLine(settings, file_data[i])
         IN  IF r.raised THEN r ELSE LoadFrom(r.settings, file_data, i + 1)

\* mutant: the lines taken last to first
loadDeviceSettingsTemplate_LastToFirst(settings, file_data) ==
    LoadFrom(settings, [i \in 1..Len(file_data) |-> file_data[Len(file_data) + 1 - i]], 1)

\* self.loadDeviceSettingsTemplate(file_data), self being `settings`
loadDeviceSettingsTemplate(settings, file_data) == LoadFrom(settings, file_data, 1)

\* str(value) of an integer field: its numeral
StrOf(value) == CHOOSE t \in DOMAIN IntOf : IntOf[t] = value

\* saveDeviceSettingsTemplate(rf_settings, device_name): one line
\* str(key) + ":" + str(value) + "\n" per attribute, in the order __init__ set them
\* (the order of TemplateKeys); the lines as f.readlines() gives them back
saveDeviceSettingsTemplate(settings) ==
    [k \in 1..Len(TemplateKeys) |->
        LET key == TemplateKeys[k]
        IN  <<key, ":">>
            \o (IF key = "modulation_type" THEN settings[key] ELSE <<StrOf(settings[key])>>)
            \o <<"\n">>]

-----------------------------------------------------------------------------
(* De Bruijn generator: utilities.py *)
(*                                                                         *)
(* The first argument is [kind |-> "int", k |-> 3] for a numeric arity or   *)
(* [kind |-> "str", symbols |-> <<"a", "b">>] for a string of symbols.       *)
(* The state of the closure db is [a, sequence, depth]: the working array,  *)
(* the output list and the deepest nesting of db reached; entered_ok tells   *)
(* whether every call so far had 1 <= p <= t <= k * n, and lo and hi are   *)
(* the least and the greatest subscript used on a.                         *)

\* str(i) for the symbols of a numeric arity
Str(i) == <<"0", "1", "2", "3", "4", "5", "6", "7", "8", "9">>[i + 1]

\* k after the isinstance branch
Arity(kk) == IF kk.kind = "str" THEN Len(kk.symbols) ELSE kk.k

\* mutant: the symbols deduplicated and sorted (sorted(set(k)))
Alphabet_SortedSet(kk) ==
    IF kk.kind = "str"
    THEN LET S == {kk.symbols[i] : i \in 1..Len(kk.symbols)}
             sorted == IF "a" \in S
                       THEN (IF "b" \in S THEN <<"a", "b">> ELSE <<"a">>)
                       ELSE <<"b">>
         IN  [i \in 1..Len(kk.symbols) |-> sorted[((i - 1) % Len(sorted)) + 1]]
    ELSE [i \in 1..kk.k |-> Str(i - 1)]

\* alphabet = list(k)  /  list(map(str, range(k)))
Alphabet(kk) ==
    IF kk.kind = "str" THEN kk.symbols
    ELSE [i \in 1..kk.k |-> Str(i - 1)]

\* mutant: every prenecklace emitted, whatever its period
Emits_Always(n, p) == TRUE

\* if n % p == 0
Emits(n, p) == n % p = 0

\* a[1:p + 1] of a list of `size` cells (a slice stops at the end of the list)
Slice(a, p, size) ==
    LET last == IF p < size - 1 THEN p ELSE size - 1
    IN  [i \in 1..last |-> a[i]]

RECURSIVE Db(_, _, _, _, _, _), DbBody(_, _, _, _, _, _), DbLoop(_, _, _, _, _, _, _)
\* a call db(t, p) at nesting depth d with the closure state st: the depth is
\* recorded, then the body runs
Db(k, n, t, p, d, st) ==
    LET ok == st.entered_ok /\ 1 <= p /\ p <= t /\ t <= k * n
    IN  IF d > st.depth
        THEN DbBody(k, n, t, p, d, [st EXCEPT !.depth = d, !.entered_ok = ok])
        ELSE DbBody(k, n, t, p, d, [st EXCEPT !.entered_ok = ok])

\* mutant: the recursion ended one level early
DbBody_StopsEarly(k, n, t, p, d, st) ==
    IF t >= n * k - 1
    THEN IF Emits(n, p)
         THEN [st EXCEPT !.sequence = @ \o Slice(st.a, p, k * n)]
         ELSE st
    ELSE LET st2 == Db(k, n, t + 1, p, d + 1,
                       [st EXCEPT !.a[t] = st.a[t - p],
                                  !.lo = IF t - p < @ THEN t - p ELSE @,
                                  !.hi = IF t > @ THEN t ELSE @])
         IN  DbLoop(k, n, t, p, d, st2.a[t - p] + 1, st2)

\* the body of db(t, p); the subscripts used on a are t - p and t
DbBody(k, n, t, p, d, st) ==
    IF t = n * k
    THEN IF Emits(n, p)
         THEN [st EXCEPT !.sequence = @ \o Slice(st.a, p, k * n)]
         ELSE st
    ELSE LET st2 == Db(k, n, t + 1, p, d + 1,
                       [st EXCEPT !.a[t] = st.a[t - p],
                                  !.lo = IF t - p < @ THEN t - p ELSE @,
                                  !.hi = IF t > @ THEN t ELSE @])
         IN  DbLoop(k, n, t, p, d, st2.a[t - p] + 1, st2)

\* for j in range(a[t - p] + 1, k): a[t] = j; db(t + 1, t)  -- from j = jj on
DbLoop(k, n, t, p, d, jj, st) ==
    IF jj >= k THEN st
    ELSE DbLoop(k, n, t, p, d, jj + 1,
                Db(k, n, t + 1, t, d + 1, [st EXCEPT !.a[t] = jj]))

\* the closure state when db(1, 1) has returned
DbRun(k, n) ==
    Db(k, n, 1, 1, 1, [a |-> [i \in 0..(k * n - 1) |-> 0], sequence |-> <<>>, depth |-> 0,
                       entered_ok |-> TRUE, lo |-> 0, hi |-> 0])

\* "".join(alphabet[i] for i in sequence): the result as a sequence of symbols
generate_de_bruijn_sequence(kk, n) ==
    LET seq == DbRun(Arity(kk), n).sequence
    IN  [i \in 1..Len(seq) |-> Alphabet(kk)[seq[i] + 1]]

-----------------------------------------------------------------------------
(* SpecCodec: one call of a pure function on an input from a bounded set *)

\* the metrics and RSSI bounds tried: -MaxRssi .. 0
MaxRssi == 4
\* transmissions after which the "forever" loop of replaySavedCapture is cut off
MaxSavedSends == 4
\* lines of a capture file
MaxFileLines == 2

HexDigits == 0..15
SeqsUpTo(S, n) == UNION {[1..k -> S] : k \in 0..n}
\* what y.hex() can return for a non-empty frame: an even number of hex digits
HexPayloads == UNION {[1..(2 * k) -> HexDigits] : k \in 1..MaxHexBytes}
\* capture strings: only '0' against any other digit matters to the split
CaptureStrings == SeqsUpTo({0, 1}, MaxStrLen)
RssiValues == (0 - MaxRssi)..0
\* payloads given to printFormatedHex (odd lengths included), bit strings given to turnToBytes
FormatInputs == SeqsUpTo({0, 10, 15}, MaxFormatLen)
BitStrings == SeqsUpTo({0, 1}, MaxBits)
\* lines of a device template, as f.readlines() gives them
TemplateLines ==
    { <<"frequency", ":", "433000000", "\n">>,
      <<"frequency", " ", ":", " ", "2400", "\n">>,
      <<"upper_rssi", ":", "-60", "\n">>,
      <<"modulation_type", ":", "MOD_2FSK", "\n">>,
      <<"old", "_", "frequency", "_", "baud_rate", ":", "2400", "\n">>,
      <<"#", " ", "garage", "\n">>,
      <<"deviation", "\n">> }
Templates == SeqsUpTo(TemplateLines, MaxTemplateLines)
\* settings to save: every numeric field one of two integers, the modulation the
\* two names rfcat knows, a name with a later key in it, one with an earlier key
\* in it, and one that begins with a blank
ModulationNames ==
    { <<"MOD_ASK_OOK">>, <<"MOD_2FSK">>, <<"deviation">>,
      <<"my", "_", "frequency">>, <<" ", "MOD_2FSK">> }
SavedSettings ==
    [frequency : {433000000, 2400}, baud_rate : {2400, 0 - 60},
     channel_bandwidth : {2400}, modulation_type : ModulationNames,
     upper_rssi : {0 - 60, 2400}, lower_rssi : {0 - 60},
     channel_spacing : {2400, 433000000}, deviation : {2400, 0 - 60}]
\* a settings object that differs from each of SavedSettings in some field
OtherSettings ==
    [frequency |-> 0 - 60, baud_rate |-> 433000000, channel_bandwidth |-> 0 - 60,
     modulation_type |-> <<"MOD_GFSK">>, upper_rssi |-> 433000000,
     lower_rssi |-> 2400, channel_spacing |-> 0 - 60, deviation |-> 433000000]
\* the first arguments of generate_de_bruijn_sequence: numeric arities and symbol strings
DeBruijnAlphabets ==
    {[kind |-> "int", k |-> k] : k \in 1..MaxArity}
    \cup {[kind |-> "str", symbols |-> w] :
             w \in UNION {[1..m -> {"a", "b"}] : m \in 1..MaxSymbols}}
\* the calls tried: the working array has at most MaxCells cells
DeBruijnInputs ==
    {c \in [alphabet : DeBruijnAlphabets, n : 1..MaxSubLen] :
        Arity(c.alphabet) * c.n <= MaxCells}

\* the RFSettings object built from the command line defaults
DefaultSettings ==
    [frequency |-> DefaultFrequency, baud_rate |-> DefaultBaudRate,
     channel_bandwidth |-> DefaultChannelBandwidth,
     modulation_type |-> <<"MOD_ASK_OOK">>,
     upper_rssi |-> DefaultUpperRssi, lower_rssi |-> DefaultLowerRssi,
     channel_spacing |-> DefaultChannelSpacing, deviation |-> DefaultDeviation]

\* signal_strength before capturePayload has assigned it: no metric, the metrics
\* being 0 or negative
Unbound == 1

\* before replaySavedCapture has run
NoReplay == [payloads |-> <<>>, sent |-> <<>>]

\* d = RfCat(idx=0): the dongle the script opens for sniffing and replaying
SniffIdx == 0

\* value of j_idx while no jam dongle is open
NoDevice == -1

\* the state of a process that runs no attack
RunOff ==
    /\ pc = "off" /\ session = "none" /\ rolling_code = FALSE
    /\ jamming_variance = 0 /\ j = "unset" /\ j_idx = NoDevice
    /\ attempt = 0 /\ jam_xmits = 0
    /\ j_freq = 0 /\ d_freq = 0
    /\ capture = <<>> /\ signal_strength = Unbound
    /\ roll_captures = <<>> /\ roll_count = 0 /\ payloads = <<>>
    /\ d_sent = <<>> /\ saved = <<>> /\ replay = NoReplay
    /\ trace = <<>> /\ arrivals = <<>> /\ timeouts = 0
    /\ capture_from = 0 /\ roll_from = <<>> /\ prompts = <<>>
    /\ stop_key = FALSE /\ response = ""
    /\ known_frequencies = <<>> /\ interval = 0 /\ current_freq = 0 /\ scan_pos = 0
    /\ scan_log = <<>> /\ sniffed = <<>> /\ tuned = <<>> /\ after_stop = 0
    /\ click_log = <<>>

CodecInit ==
    /\ RunOff
    /\ rf_settings = DefaultSettings
    /\ call = "none" /\ arg = <<>> /\ ret = <<>>

CallDetermineRealTransmission ==
    /\ call = "none"
    /\ \E m \in RssiValues, u \in RssiValues, l \in RssiValues :
          LET settings == [rf_settings EXCEPT !.upper_rssi = u, !.lower_rssi = l]
          IN  /\ call' = "determineRealTransmission"
              /\ arg' = [metric |-> m, settings |-> settings]
              /\ ret' = determineRealTransmission(m, settings)
    /\ UNCHANGED <<runVars, histVars, scanVars, keyVars, after_stop>>

CallCreateBytesFromPayloads ==
    /\ call = "none"
    /\ \E h \in HexPayloads :
          /\ call' = "createBytesFromPayloads"
          /\ arg' = h
          /\ ret' = createBytesFromPayloads(<<h>>)
    /\ UNCHANGED <<runVars, histVars, scanVars, keyVars, after_stop>>

CallSplitCaptureByZeros ==
    /\ call = "none"
    /\ \E c \in CaptureStrings :
          /\ call' = "splitCaptureByZeros"
          /\ arg' = c
          /\ ret' = splitCaptureByZeros(c)
    /\ UNCHANGED <<runVars, histVars, scanVars, keyVars, after_stop>>

CallGenerateDeBruijnSequence ==
    /\ call = "none"
    /\ \E c \in DeBruijnInputs :
          /\ call' = "generate_de_bruijn_sequence"
          /\ arg' = c
          /\ ret' = generate_de_bruijn_sequence(c.alphabet, c.n)
    /\ UNCHANGED <<runVars, histVars, scanVars, keyVars, after_stop>>

CallPrintFormatedHex ==
    /\ call = "none"
    /\ \E payload \in FormatInputs :
          /\ call' = "printFormatedHex"
          /\ arg' = payload
          /\ ret' = printFormatedHex(payload)
    /\ UNCHANGED <<runVars, histVars, scanVars, keyVars, after_stop>>

CallTurnToBytes ==
    /\ call = "none"
    /\ \E binary \in BitStrings :
          /\ call' = "turnToBytes"
          /\ arg' = binary
          /\ ret' = turnToBytes(binary)
    /\ UNCHANGED <<runVars, histVars, scanVars, keyVars, after_stop>>

CallLoadDeviceSettingsTemplate ==
    /\ call = "none"
    /\ \E file_data \in Templates :
          /\ call' = "loadDeviceSettingsTemplate"
          /\ arg' = [settings |-> rf_settings, file_data |-> file_data]
          /\ ret' = loadDeviceSettingsTemplate(rf_settings, file_data)
    /\ UNCHANGED <<runVars, histVars, scanVars, keyVars, after_stop>>

\* a template saved from one settings object and loaded into another
CallSaveThenLoad ==
    /\ call = "none"
    /\ \E saved_from \in SavedSettings, into \in {rf_settings, OtherSettings} :
          /\ call' = "saveThenLoad"
          /\ arg' = [settings |-> saved_from, into |-> into,
                     file_data |-> saveDeviceSettingsTemplate(saved_from)]
          /\ ret' = loadDeviceSettingsTemplate(into, saveDeviceSettingsTemplate(saved_from))
    /\ UNCHANGED <<runVars, histVars, scanVars, keyVars, after_stop>>

CodecNext ==
    \/ CallSaveThenLoad
    \/ CallDetermineRealTransmission
    \/ CallCreateBytesFromPayloads
    \/ CallSplitCaptureByZeros
    \/ CallGenerateDeBruijnSequence
    \/ CallPrintFormatedHex
    \/ CallTurnToBytes
    \/ CallLoadDeviceSettingsTemplate

SpecCodec == CodecInit /\ [][CodecNext]_vars

-----------------------------------------------------------------------------
(* Claims about the pure functions (under SpecCodec) *)

\* C7: determineRealTransmission(metric, settings) is True exactly when
\* settings.upper_rssi < metric < settings.lower_rssi (a metric equal to either
\* bound is rejected), and the call leaves the settings as they were.
C7_ClassifierStrictWindow ==
    /\ [](call = "determineRealTransmission" =>
            /\ ret = TRUE <=> (arg.settings.upper_rssi < arg.metric
                               /\ arg.metric < arg.settings.lower_rssi)
            /\ (arg.metric = arg.settings.upper_rssi \/ arg.metric = arg.settings.lower_rssi)
                  => ret = FALSE)
    /\ [][call' = "determineRealTransmission" => UNCHANGED <<runVars, histVars>>]_vars

\* C7 witness: a metric on a bound of a non-empty window was classified and rejected,
C7_Witness_Boundary ==
    /\ call = "determineRealTransmission"
    /\ arg.settings.upper_rssi + 1 < arg.settings.lower_rssi
    /\ arg.metric = arg.settings.lower_rssi
    /\ ret = FALSE

\* bytes.fromhex(h): the direct decode of an even-length hex string
FromHex(h) == [i \in 1..(Len(h) \div 2) |-> 16 * h[2 * i - 1] + h[2 * i]]

\* C9: for every even-length hex string h the bytes createBytesFromPayloads([h])
\* produces equal the direct hex-to-bytes decode of h.
C9_CodecRoundTrip ==
    call = "createBytesFromPayloads" => ret = <<FromHex(arg)>>

\* C10: splitCaptureByZeros splits exactly at the maximal runs of four or more '0'
\* and returns, in order, exactly the fragments longer than 5.
C10_SplitAtFourZeros ==
    call = "splitCaptureByZeros" =>
        ret = LongerThan(SplitRuns(arg, 4, 1, <<>>, <<>>), 5)

RECURSIVE Pow(_, _)
Pow(b, e) == IF e = 0 THEN 1 ELSE b * Pow(b, e - 1)

\* the length-n window of the cyclic sequence s that starts at position i
CyclicWindow(s, n, i) == [m \in 1..n |-> s[((i + m - 2) % Len(s)) + 1]]

\* C11: for a numeric arity k >= 2 the result, read cyclically, contains every one
\* of the k^n strings of length n over "0".."k-1" exactly once.
C11_EveryWordOnceCyclically ==
    (call = "generate_de_bruijn_sequence" /\ arg.alphabet.kind = "int"
     /\ arg.alphabet.k >= 2) =>
        /\ Len(ret) = Pow(arg.alphabet.k, arg.n)
        /\ \A w \in [1..arg.n -> {Str(i) : i \in 0..(arg.alphabet.k - 1)}] :
              Cardinality({i \in 1..Len(ret) : CyclicWindow(ret, arg.n, i) = w}) = 1

\* C11 witness: generate(4, 2) was called and returned 16 symbols
C11_Witness_FourTwo ==
    /\ call = "generate_de_bruijn_sequence" /\ arg.alphabet.kind = "int"
    /\ arg.alphabet.k = 4 /\ arg.n = 2
    /\ Len(ret) = 16

\* C12: for every numeric arity k >= 1 and every n >= 1 the result has exactly
\* k^n symbols, k = 1 and n = 1 included.
C12_LengthIsKToTheN ==
    (call = "generate_de_bruijn_sequence" /\ arg.alphabet.kind = "int") =>
        Len(ret) = Pow(arg.alphabet.k, arg.n)

\* C14: the result for explicit symbols s_0..s_{k-1} is the result for the numeric
\* arity k with every symbol "i" replaced by s_i.
C14_SymbolsRenameNumericResult ==
    (call = "generate_de_bruijn_sequence" /\ arg.alphabet.kind = "str") =>
        LET k == Len(arg.alphabet.symbols)
            numeric == generate_de_bruijn_sequence([kind |-> "int", k |-> k], arg.n)
            index(c) == CHOOSE i \in 0..(k - 1) : Str(i) = c
        IN  ret = [i \in 1..Len(numeric) |-> arg.alphabet.symbols[index(numeric[i]) + 1]]

\* C14 witness: symbols given out of order ("ba") and a result that uses both
C14_Witness_Unsorted ==
    /\ call = "generate_de_bruijn_sequence" /\ arg.alphabet.kind = "str"
    /\ arg.alphabet.symbols = <<"b", "a">> /\ arg.n = 2
    /\ ret = <<"b", "b", "a", "a">>

-----------------------------------------------------------------------------
(* Spec: one run of RFCrack.py -r (rollingCode) or RFCrack.py -j (jamming)  *)
(*                                                                         *)
(* trace holds, in order: "j.<cmd>" / "d.<cmd>" for a command that returned *)
(* on the jam / sniff handle, the same with "!" for one that raised,        *)
(* "keystop" for keystop() returning True, "append" for                     *)
(* roll_captures.append, "return" for capturePayload returning, "crash" for *)
(* an exception leaving the program, and "print.<what>" for a report.       *)
(*                                                                         *)
(* The commands that may raise are RfCat()/the setters of setupJammer,      *)
(* j.setFreq, j.RFxmit, d.RFrecv (timeout or another error) and d.RFxmit;   *)
(* setModeIDLE, keystop() and input() return. time.sleep is not modelled.   *)

\* the frames the target device sends while the session listens
SniffedPayloads == {<<0, 15>>, <<10, 11>>}
\* saveLogs(current_freq, capture): the block written to the log file
saveLogs(freq, hex) == <<"A signal was found on :", freq, "\n", hex, "\n">>
\* what the log file holds when a scanner starts (it is opened with 'a+')
EarlierLogs == {<<>>, <<saveLogs(SecondKnownFrequency, <<10, 11>>)>>}
\* the -f lists tried: up to MaxKnown entries of the default list's frequencies
KnownLists ==
    UNION {[1..m -> {DefaultFrequency, SecondKnownFrequency}] : m \in 1..MaxKnown}
\* raw RSSI register bytes: 60 gives a metric inside the default window,
\* 20 the metric on its bound
RawRssi == {20, 60}
\* what d.RFrecv() followed by d.getRSSI() can deliver: a frame (hex of y) and
\* either the raw RSSI byte or a failure of the read/conversion
AllFrames ==
    {[hex |-> h, rssi_ok |-> TRUE, raw |-> r] : h \in SniffedPayloads, r \in RawRssi}
    \cup {[hex |-> h, rssi_ok |-> FALSE, raw |-> 0] : h \in SniffedPayloads}
    \cup {[hex |-> <<>>, rssi_ok |-> TRUE, raw |-> 60]}
\* the frames tried inside a whole rolling-code run: both payloads inside the
\* window, one of them also on its bound
RollingFrames ==
    {[hex |-> h, rssi_ok |-> TRUE, raw |-> 60] : h \in SniffedPayloads}
    \cup {[hex |-> <<0, 15>>, rssi_ok |-> TRUE, raw |-> 20]}
\* the frames tried in a run of replayLiveCapture, where the metric decides nothing:
\* a frame with its RSSI read, one whose RSSI read fails, an empty one
LiveFrames ==
    {[hex |-> <<0, 15>>, rssi_ok |-> TRUE, raw |-> 60],
     [hex |-> <<10, 11>>, rssi_ok |-> FALSE, raw |-> 0],
     [hex |-> <<>>, rssi_ok |-> TRUE, raw |-> 60]}
FrameInputs ==
    IF session = "rolling" THEN RollingFrames
    ELSE IF session = "live" THEN LiveFrames ELSE AllFrames
\* what the operator can type at a prompt
Responses == {"y", "Y", "n", "x", ""}
\* mutant: the answer compared as typed
lower_AsTyped(r) == r

\* str.lower() on the answers of Responses
lower(r) == IF r = "Y" THEN "y" ELSE IF r = "F" THEN "f" ELSE r
\* what the operator can type when asked "Send once, or forever? (o/f)"
SendAnswers == {"o", "f", "F", ""}

\* 0 - ord(str(d.getRSSI())), or 0 when that raises
Metric(f) == IF f.rssi_ok THEN 0 - f.raw ELSE 0

Emit(events) == trace' = trace \o events

RECURSIVE JoinLines(_)
\* the text of a file made of the given lines, a line feed after each
JoinLines(lines) ==
    IF lines = <<>> THEN <<>>
    ELSE lines[1] \o <<NL>> \o JoinLines(Tail(lines))

\* the files given to -u: up to MaxFileLines captures, one a line, the last line
\* with or without its line feed; and a file with an empty line in it
SavedFiles ==
    LET texts == UNION {[1..m -> SniffedPayloads] : m \in 0..MaxFileLines}
        whole == {JoinLines(t) : t \in texts}
    IN  whole \cup {SubSeq(f, 1, Len(f) - 1) : f \in whole \ {<<>>}}
              \cup {<<0, 15, NL, NL, 10, 11, NL>>}

\* the script up to the attack: `startAt` is "setup" for -r and -j; a direct call
\* capturePayload(d, True, rf_settings) starts at "capture"
StartWith(sessions, startAt, settings) ==
    /\ session \in sessions
    /\ rolling_code = (session \notin {"jammer", "live"})
    /\ rf_settings \in settings
    /\ jamming_variance = IF session = "rolling" THEN DefaultJammingVariance ELSE 0
    /\ pc = startAt
    /\ j = "unset" /\ j_idx = NoDevice /\ attempt = 0 /\ jam_xmits = 0
    /\ j_freq = 0
    /\ d_freq = IF session # "jammer" THEN rf_settings.frequency ELSE 0
    /\ capture = <<>> /\ signal_strength = Unbound
    /\ roll_captures = <<>> /\ roll_count = 0 /\ payloads = <<>>
    /\ d_sent = <<>> /\ replay = NoReplay
    /\ saved \in (IF session = "upload" THEN SavedFiles ELSE {<<>>})
    /\ trace = <<>> /\ arrivals = <<>> /\ timeouts = 0
    /\ capture_from = 0 /\ roll_from = <<>> /\ prompts = <<>>
    /\ call = "none" /\ arg = <<>> /\ ret = <<>>
    /\ stop_key = FALSE /\ response = ""
    /\ known_frequencies \in
          (IF session \in {"known", "clicker"} THEN KnownLists ELSE {<<>>})
    /\ click_log \in (IF session = "clicker" THEN EarlierLogs ELSE {<<>>})
    /\ interval = IF session = "brute" THEN ExampleInterval ELSE 0
    /\ current_freq = IF session = "brute" THEN rf_settings.frequency ELSE 0
    /\ scan_pos = 0 /\ sniffed = <<>> /\ tuned = <<>> /\ after_stop = 0
    /\ scan_log \in (IF session \in {"known", "brute"} THEN EarlierLogs ELSE {<<>>})

\* the script run with the default settings
Start(sessions, startAt) == StartWith(sessions, startAt, {DefaultSettings})

Init == Start({"rolling", "jammer"}, "setup") \/ Start({"debruijn"}, "debruijn")

\* the operator presses Enter while one of the loops runs; the line stays pending
\* on stdin (keystop() only polls it)
PressEnter ==
    /\ ~stop_key
    /\ pc \in {"jam_loop", "capture", "scan", "scan_pass", "saved_loop", "click_loop"}
    /\ stop_key' = TRUE
    /\ UNCHANGED <<runVars, histVars, callVars, scanVars, response, after_stop>>

captureVars == <<capture, signal_strength, roll_captures, roll_count,
                 arrivals, timeouts, capture_from, roll_from, prompts>>

(* ---- jam.setupJammer ---- *)

\* mutant: the jammer of a rolling-code run opened on the dongle d already holds
SetupJammer_OnSniffDongle ==
    /\ pc = "setup"
    /\ j' = "RfCat"
    /\ j_idx' = SniffIdx
    /\ pc' = "jam_start"
    /\ UNCHANGED <<session, rolling_code, rf_settings, jamming_variance, attempt,
                   jam_xmits, j_freq, d_freq, payloads, d_sent, saved, replay, trace,
                   captureVars, callVars, scanVars, keyVars, after_stop>>

\* setupJammer(1, rf_settings) in rollingCode, setupJammer(0, rf_settings) for -j
SetupJammer ==
    /\ pc = "setup"
    /\ j' = "RfCat"
    /\ j_idx' = IF session = "rolling" THEN 1 ELSE 0
    /\ pc' = "jam_start"
    /\ UNCHANGED <<session, rolling_code, rf_settings, jamming_variance, attempt,
                   jam_xmits, j_freq, d_freq, payloads, d_sent, saved, replay, trace,
                   captureVars, callVars, scanVars, keyVars, after_stop>>

\* RfCat(idx=...) or one of the setters raised: the except branch returns None
SetupJammerFails ==
    /\ pc = "setup"
    /\ j' = "None"
    /\ j_idx' = j_idx
    /\ Emit(<<"print.SetupError">>)
    /\ pc' = "jam_start"
    /\ UNCHANGED <<session, rolling_code, rf_settings, jamming_variance, attempt,
                   jam_xmits, j_freq, d_freq, payloads, d_sent, saved, replay,
                   captureVars, callVars, scanVars, keyVars, after_stop>>

(* ---- jam.jamming(j, "start", ...) ---- *)

\* where the caller goes on when jamming(start) returns
AfterJamStart == IF session = "rolling" THEN "capture" ELSE "done"

jamFrame == <<session, rolling_code, rf_settings, jamming_variance, j, j_idx, d_freq,
              payloads, d_sent, saved, replay, captureVars, callVars, scanVars, keyVars,
              after_stop>>

JamStartNoJammer ==
    /\ pc = "jam_start" /\ j = "None"
    /\ Emit(<<"print.NoJammer">>)
    /\ pc' = AfterJamStart
    /\ UNCHANGED <<jamFrame, attempt, jam_xmits, j_freq>>

\* mutant: the variance added into rf_settings.frequency, which is then tuned to
JamStartSetFreq_AddsIntoSettings ==
    /\ pc = "jam_start" /\ j = "RfCat"
    /\ rf_settings' = [rf_settings EXCEPT !.frequency = @ + jamming_variance]
    /\ j_freq' = rf_settings'.frequency
    /\ Emit(<<"j.setFreq">>)
    /\ attempt' = 0
    /\ pc' = "jam_loop"
    /\ UNCHANGED <<session, rolling_code, jamming_variance, j, j_idx, d_freq, payloads,
                   d_sent, saved, replay, captureVars, callVars, scanVars, keyVars,
                   after_stop, jam_xmits>>

\* mutant: the jam radio tuned to the sniffing frequency itself
JamStartSetFreq_NoVariance ==
    /\ pc = "jam_start" /\ j = "RfCat"
    /\ j_freq' = rf_settings.frequency
    /\ Emit(<<"j.setFreq">>)
    /\ attempt' = 0
    /\ pc' = "jam_loop"
    /\ UNCHANGED <<jamFrame, jam_xmits>>

JamStartSetFreq ==
    /\ pc = "jam_start" /\ j = "RfCat"
    /\ j_freq' = rf_settings.frequency + jamming_variance
    /\ Emit(<<"j.setFreq">>)
    /\ attempt' = 0
    /\ pc' = "jam_loop"
    /\ UNCHANGED <<jamFrame, jam_xmits>>

JamStartSetFreqFails ==
    /\ pc = "jam_start" /\ j = "RfCat"
    /\ Emit(<<"j.setFreq!", "print.JammingError">>)
    /\ pc' = AfterJamStart
    /\ UNCHANGED <<jamFrame, attempt, jam_xmits, j_freq>>

\* keystop() is False and j.RFxmit(b"A" * 1000) returns
\* keystop() is False and j.RFxmit returns
JamXmit ==
    /\ pc = "jam_loop"
    /\ ~stop_key
    /\ jam_xmits < MaxJamXmit
    /\ jam_xmits' = jam_xmits + 1
    /\ Emit(<<"j.RFxmit">>)
    /\ UNCHANGED <<jamFrame, pc, attempt, j_freq>>

\* mutant: one attempt more than `retries`
JamXmitFails_OneMore ==
    /\ pc = "jam_loop"
    /\ ~stop_key
    /\ IF attempt < Retries
       THEN /\ attempt' = attempt + 1
            /\ Emit(<<"j.RFxmit!", "print.Retrying">>)
            /\ pc' = pc
       ELSE /\ attempt' = attempt
            /\ Emit(<<"j.RFxmit!", "print.MaxRetries">>)
            /\ pc' = AfterJamStart
    /\ UNCHANGED <<jamFrame, jam_xmits, j_freq>>

\* keystop() is False and j.RFxmit raises: the next attempt, or "Max retries reached"
JamXmitFails ==
    /\ pc = "jam_loop"
    /\ ~stop_key
    /\ IF attempt < Retries - 1
       THEN /\ attempt' = attempt + 1
            /\ Emit(<<"j.RFxmit!", "print.Retrying">>)
            /\ pc' = pc
       ELSE /\ attempt' = attempt
            /\ Emit(<<"j.RFxmit!", "print.MaxRetries">>)
            /\ pc' = AfterJamStart
    /\ UNCHANGED <<jamFrame, jam_xmits, j_freq>>

\* mutant: the radio left transmitting when the loop ends, whatever rolling_code is
JamKeystop_NeverIdles ==
    /\ pc = "jam_loop"
    /\ stop_key
    /\ Emit(<<"keystop">>)
    /\ pc' = AfterJamStart
    /\ UNCHANGED <<jamFrame, attempt, jam_xmits, j_freq>>

\* mutant: the radio idled when the loop ends, whatever rolling_code is
JamKeystop_IdlesAlways ==
    /\ pc = "jam_loop"
    /\ stop_key
    /\ Emit(<<"keystop", "j.setModeIDLE">>)
    /\ pc' = AfterJamStart
    /\ UNCHANGED <<jamFrame, attempt, jam_xmits, j_freq>>

\* keystop() is True: the while loop ends; only without rolling_code is the radio idled
JamKeystop ==
    /\ pc = "jam_loop"
    /\ stop_key
    /\ Emit(IF rolling_code THEN <<"keystop">> ELSE <<"keystop", "j.setModeIDLE">>)
    /\ pc' = AfterJamStart
    /\ UNCHANGED <<jamFrame, attempt, jam_xmits, j_freq>>

(* ---- RFFunctions.capturePayload(d, rolling_code, rf_settings) ---- *)

recvFrame == <<session, rolling_code, rf_settings, jamming_variance, j, j_idx, attempt,
               jam_xmits, j_freq, d_freq, payloads, d_sent, saved, replay, callVars,
               scanVars, stop_key>>

\* mutant: a declined capture left in `capture`
Ask_KeepsDeclined(c, from, ev) ==
    \E r \in Responses, raised \in BOOLEAN :
        /\ raised => r = ""
        /\ prompts' = Append(prompts, [from |-> from, hex |-> c, answer |-> r,
                                       raised |-> raised])
        /\ capture' = c
        /\ IF ~raised /\ lower(r) = "y"
           THEN /\ response' = r
                /\ Emit(<<ev, "input", "return">>)
                /\ pc' = "live_replay"
           ELSE /\ response' = IF raised THEN response ELSE r
                /\ Emit(<<ev, IF raised THEN "input!" ELSE "input">>)
                /\ pc' = pc

\* lines 44-59: the capture c (from arrival number `from`) is shown and the operator
\* asked; input() returns r or raises. 'y' in either case breaks out of the loop
\* to the return, anything else clears `capture` and the loop goes on.
Ask(c, from, ev) ==
    \E r \in Responses, raised \in BOOLEAN :
        /\ raised => r = ""
        /\ prompts' = Append(prompts, [from |-> from, hex |-> c, answer |-> r,
                                       raised |-> raised])
        /\ IF ~raised /\ lower(r) = "y"
           THEN /\ capture' = c
                /\ response' = r
                /\ Emit(<<ev, "input", "return">>)
                /\ pc' = "live_replay"
           ELSE /\ capture' = <<>>
                /\ response' = IF raised THEN response ELSE r
                /\ Emit(<<ev, IF raised THEN "input!" ELSE "input">>)
                /\ pc' = pc

\* mutant: roll_count never incremented, so no second capture is ever counted
Classify_NeverCounts(c, ss, from, ev) ==
    /\ capture' = c
    /\ signal_strength' = ss
    /\ capture_from' = from
    /\ UNCHANGED <<response, prompts, roll_count, pc>>
    /\ IF rolling_code /\ c # <<>> /\ determineRealTransmission(ss, rf_settings)
       THEN /\ roll_captures' = Append(roll_captures, c)
            /\ roll_from' = Append(roll_from, from)
            /\ Emit(<<ev, "append">>)
       ELSE /\ Emit(<<ev>>)
            /\ UNCHANGED <<roll_captures, roll_from>>

\* mutant: returns on the first accepted capture (roll_count >= 0)
Classify_ReturnsOnFirst(c, ss, from, ev) ==
    /\ capture' = c
    /\ UNCHANGED <<response, prompts>>
    /\ signal_strength' = ss
    /\ capture_from' = from
    /\ IF rolling_code /\ c # <<>> /\ determineRealTransmission(ss, rf_settings)
       THEN /\ roll_captures' = Append(roll_captures, c)
            /\ roll_from' = Append(roll_from, from)
            /\ roll_count' = roll_count
            /\ Emit(<<ev, "append", "return">>)
            /\ pc' = "encode"
       ELSE /\ Emit(<<ev>>)
            /\ UNCHANGED <<roll_captures, roll_from, roll_count, pc>>

\* The rest of one pass of the while loop once the try block is left, with
\* capture = c, signal_strength = ss (c taken from arrival number `from`) and
\* `ev` the receive just made. rolling_code is true in every run of Spec
\* that reaches capturePayload, so the pass is lines 29-41; in a run of
\* replayLiveCapture it is false and the pass is lines 44-59.
Classify(c, ss, from, ev) ==
    /\ signal_strength' = ss
    /\ capture_from' = from
    /\ IF rolling_code /\ c # <<>>
       THEN /\ capture' = c
            /\ UNCHANGED <<response, prompts>>
            /\ IF determineRealTransmission(ss, rf_settings)
               THEN /\ roll_captures' = Append(roll_captures, c)
                    /\ roll_from' = Append(roll_from, from)
                    /\ IF roll_count >= 1
                       THEN /\ roll_count' = roll_count
                            /\ Emit(<<ev, "append", "return">>)
                            /\ pc' = "encode"
                       ELSE /\ roll_count' = roll_count + 1
                            /\ Emit(<<ev, "append">>)
                            /\ pc' = pc
               ELSE /\ Emit(<<ev>>)
                    /\ UNCHANGED <<roll_captures, roll_from, roll_count, pc>>
       ELSE IF c # <<>>
            THEN /\ Ask(c, from, ev)
                 /\ UNCHANGED <<roll_captures, roll_from, roll_count>>
            ELSE /\ capture' = c
                 /\ Emit(<<ev>>)
                 /\ UNCHANGED <<roll_captures, roll_from, roll_count, pc, response,
                                prompts>>

\* d.RFrecv() returns a frame: capture = y.hex(), signal_strength from getRSSI
\* after_stop once one more d.RFrecv call has been started
AfterStop == IF stop_key THEN after_stop + 1 ELSE after_stop

\* mutant: a failed getRSSI leaves signal_strength as the earlier pass set it
RecvFrame_StaleOnFailure ==
    /\ pc = "capture"
    /\ Len(arrivals) + timeouts < MaxRecv
    /\ \E f \in FrameInputs :
          LET m == IF f.rssi_ok THEN Metric(f) ELSE signal_strength IN
          /\ arrivals' = Append(arrivals, [hex |-> f.hex, metric |-> m,
                                           rssi_ok |-> f.rssi_ok, raw |-> f.raw])
          /\ Classify(f.hex, m, Len(arrivals) + 1, "d.RFrecv")
    /\ after_stop' = AfterStop
    /\ UNCHANGED <<recvFrame, timeouts>>

RecvFrame ==
    /\ pc = "capture"
    /\ Len(arrivals) + timeouts < MaxRecv
    /\ \E f \in FrameInputs :
          /\ arrivals' = Append(arrivals, [hex |-> f.hex, metric |-> Metric(f),
                                           rssi_ok |-> f.rssi_ok, raw |-> f.raw])
          /\ Classify(f.hex, Metric(f), Len(arrivals) + 1, "d.RFrecv")
    /\ after_stop' = AfterStop
    /\ UNCHANGED <<recvFrame, timeouts>>

\* d.RFrecv() raises ChipconUsbTimeoutException: `pass`, then the rest of the pass
\* runs with capture and signal_strength as the earlier passes left them
RecvTimeout ==
    /\ pc = "capture"
    /\ Len(arrivals) + timeouts < MaxRecv
    /\ timeouts' = timeouts + 1
    /\ Classify(capture, signal_strength, capture_from, "d.RFrecv.timeout")
    /\ after_stop' = AfterStop
    /\ UNCHANGED <<recvFrame, arrivals>>

\* d.RFrecv() raises another error: nothing catches it, up to the top of the script
RecvFails ==
    /\ pc = "capture"
    /\ Len(arrivals) + timeouts < MaxRecv
    /\ Emit(<<"d.RFrecv!", "crash">>)
    /\ pc' = "crashed"
    /\ after_stop' = AfterStop
    /\ UNCHANGED <<recvFrame, captureVars, response>>

(* ---- attacks.rollingCode after capturePayload ---- *)

\* payloads = tools.createBytesFromPayloads(roll_captures)
Encode ==
    /\ pc = "encode"
    /\ payloads' = createBytesFromPayloads(roll_captures)
    /\ pc' = "jam_stop"
    /\ UNCHANGED <<session, rolling_code, rf_settings, jamming_variance, j, j_idx, attempt,
                   jam_xmits, j_freq, d_freq, d_sent, saved, replay, trace, captureVars, callVars,
                   scanVars, keyVars, after_stop>>

stopFrame == <<session, rolling_code, rf_settings, jamming_variance, j, j_idx, attempt,
               jam_xmits, d_freq, payloads, d_sent, saved, replay, captureVars, callVars,
               scanVars, keyVars, after_stop>>

\* jamming(j, "stop", ...) with j None
JamStopNoJammer ==
    /\ pc = "jam_stop" /\ j = "None"
    /\ Emit(<<"print.NoJammer">>)
    /\ pc' = "replay_first"
    /\ UNCHANGED <<stopFrame, j_freq>>

\* jamming(j, "stop", ...): setFreq, then setModeIDLE
JamStop ==
    /\ pc = "jam_stop" /\ j = "RfCat"
    /\ j_freq' = rf_settings.frequency + jamming_variance
    /\ Emit(<<"j.setFreq", "j.setModeIDLE", "print.JammingStopped">>)
    /\ pc' = "replay_first"
    /\ UNCHANGED stopFrame

\* jamming(j, "stop", ...): setFreq raises, the outer except reports and returns
JamStopSetFreqFails ==
    /\ pc = "jam_stop" /\ j = "RfCat"
    /\ Emit(<<"j.setFreq!", "print.JammingError">>)
    /\ pc' = "replay_first"
    /\ UNCHANGED <<stopFrame, j_freq>>

replayFrame == <<session, rolling_code, rf_settings, jamming_variance, j, j_idx, attempt,
                 jam_xmits, j_freq, d_freq, payloads, captureVars, callVars,
                 scanVars, stop_key, after_stop>>

\* tools.sendTransmission(payloads[0], d)
\* mutant: the later capture replayed first
ReplayFirst_SendsSecond ==
    /\ pc = "replay_first"
    /\ d_sent' = Append(d_sent, payloads[2])
    /\ Emit(<<"d.RFxmit">>)
    /\ pc' = "prompt"
    /\ UNCHANGED <<replayFrame, saved, replay, response>>

ReplayFirst ==
    /\ pc = "replay_first"
    /\ d_sent' = Append(d_sent, payloads[1])
    /\ Emit(<<"d.RFxmit">>)
    /\ pc' = "prompt"
    /\ UNCHANGED <<replayFrame, saved, replay, response>>

ReplayFirstFails ==
    /\ pc = "replay_first"
    /\ Emit(<<"d.RFxmit!", "crash">>)
    /\ pc' = "crashed"
    /\ UNCHANGED <<replayFrame, d_sent, saved, replay, response>>

\* response.lower() == "y": tools.sendTransmission(payloads[1], d)
ReplaySecond ==
    /\ pc = "prompt"
    /\ \E r \in Responses : lower(r) = "y" /\ response' = r
    /\ d_sent' = Append(d_sent, payloads[2])
    /\ Emit(<<"d.RFxmit">>)
    /\ pc' = "done"
    /\ UNCHANGED <<replayFrame, saved, replay>>

ReplaySecondFails ==
    /\ pc = "prompt"
    /\ \E r \in Responses : lower(r) = "y" /\ response' = r
    /\ Emit(<<"d.RFxmit!", "crash">>)
    /\ pc' = "crashed"
    /\ UNCHANGED <<replayFrame, d_sent, saved, replay>>

\* mutant: the earlier capture written to the file
SaveSecond_WritesFirst ==
    /\ pc = "prompt"
    /\ \E r \in Responses : lower(r) # "y" /\ response' = r
    /\ saved' = roll_captures[1]
    /\ Emit(<<"d.setModeIDLE", "write.cap">>)
    /\ pc' = "done"
    /\ UNCHANGED <<replayFrame, d_sent, replay>>

\* any other response: d.setModeIDLE(), then roll_captures[1] is written to the file
SaveSecond ==
    /\ pc = "prompt"
    /\ \E r \in Responses : lower(r) # "y" /\ response' = r
    /\ saved' = roll_captures[2]
    /\ Emit(<<"d.setModeIDLE", "write.cap">>)
    /\ pc' = "done"
    /\ UNCHANGED <<replayFrame, d_sent, replay>>

(* ---- attacks.replaySavedCapture(d, uploaded_payload) ---- *)

\* everything replaySavedCapture leaves alone
savedFrame == <<rolling_code, rf_settings, jamming_variance, j, j_idx, attempt,
                jam_xmits, j_freq, d_freq, payloads, d_sent, saved, captureVars,
                callVars, scanVars, after_stop>>

\* the lines int(payload, 16) cannot convert: nothing but white space
Blank(lines) == {i \in 1..Len(lines) : StripNL(lines[i]) = <<>>}

\* a run of RFCrack.py -u: on a file given to it, or later on the file the
\* rolling-code run wrote
Uploads ==
    \/ session = "upload" /\ pc = "saved_load"
    \/ session = "rolling" /\ pc = "done" /\ saved # <<>>

\* payloads = f.readlines(), then createBytesFromPayloads(payloads)
ReplaySavedLoad ==
    /\ Uploads
    /\ Blank(readlines(saved)) = {}
    /\ session' = "saved"
    /\ replay' = [payloads |-> createBytesFromPayloads(readlines(saved)),
                  sent |-> <<>>]
    /\ stop_key' = FALSE
    /\ Emit(<<"readlines">>)
    /\ pc' = "saved_prompt"
    /\ UNCHANGED <<savedFrame, response>>

\* createBytesFromPayloads: int('\n', 16) raises ValueError, nothing catches it
ReplaySavedLoadFails ==
    /\ Uploads
    /\ Blank(readlines(saved)) # {}
    /\ session' = "saved"
    /\ Emit(<<"readlines", "int!", "crash">>)
    /\ pc' = "crashed"
    /\ UNCHANGED <<savedFrame, keyVars, replay>>

\* response = input("Send once, or forever? (o/f) Default = o ")
ReplaySavedAnswer ==
    /\ pc = "saved_prompt"
    /\ \E r \in SendAnswers :
          /\ response' = r
          /\ pc' = IF lower(r) = "f" THEN "saved_loop" ELSE "saved_once"
    /\ UNCHANGED <<savedFrame, session, replay, stop_key, trace>>

\* the commands of one `for payload in payloads`, d idled after each send or not
SendAll(ps, idle) ==
    LET cmds == IF idle THEN <<"d.RFxmit", "d.setModeIDLE">> ELSE <<"d.RFxmit">>
        n == Len(cmds)
    IN  [i \in 1..(n * Len(ps)) |-> cmds[((i - 1) % n) + 1]]

\* else branch: each payload sent once, d idled after each
ReplaySavedOnce ==
    /\ pc = "saved_once"
    /\ replay' = [replay EXCEPT !.sent = @ \o replay.payloads]
    /\ Emit(SendAll(replay.payloads, TRUE))
    /\ pc' = "saved_done"
    /\ UNCHANGED <<savedFrame, session, keyVars>>

\* mutant: keystop() asked before every payload
ReplaySavedPass_KeystopPerPayload ==
    /\ pc = "saved_loop" /\ ~stop_key
    /\ Len(replay.sent) < MaxSavedSends
    /\ replay.payloads # <<>>
    /\ replay' = [replay EXCEPT !.sent =
                     Append(@, replay.payloads[(Len(@) % Len(replay.payloads)) + 1])]
    /\ Emit(<<"d.RFxmit">>)
    /\ UNCHANGED <<savedFrame, session, keyVars, pc>>

\* "f": one pass of `while not keystop()`, every payload sent in order
ReplaySavedPass ==
    /\ pc = "saved_loop" /\ ~stop_key
    /\ Len(replay.sent) < MaxSavedSends
    /\ replay' = [replay EXCEPT !.sent = @ \o replay.payloads]
    /\ Emit(SendAll(replay.payloads, FALSE))
    /\ UNCHANGED <<savedFrame, session, keyVars, pc>>

\* "f": keystop() true, the loop is left and d idled
ReplaySavedStop ==
    /\ pc = "saved_loop" /\ stop_key
    /\ Emit(<<"keystop", "d.setModeIDLE">>)
    /\ pc' = "saved_done"
    /\ UNCHANGED <<savedFrame, session, keyVars, replay>>

\* d.RFxmit raises in sendTransmission of the k-th payload of a pass: the earlier
\* ones are out, nothing catches the error
ReplaySavedXmitFails ==
    /\ \/ pc = "saved_once"
       \/ pc = "saved_loop" /\ ~stop_key /\ Len(replay.sent) < MaxSavedSends
    /\ \E k \in 1..Len(replay.payloads) :
          LET out == SubSeq(replay.payloads, 1, k - 1)
          IN  /\ replay' = [replay EXCEPT !.sent = @ \o out]
              /\ Emit(SendAll(out, pc = "saved_once") \o <<"d.RFxmit!", "crash">>)
    /\ pc' = "crashed"
    /\ UNCHANGED <<savedFrame, session, keyVars>>

(* ---- attacks.deBruijn(d) ---- *)

\* the length is read and utilities.deBruijn looked up: utilities defines only
\* generate_de_bruijn_sequence, so the lookup raises AttributeError and the
\* exception leaves the program before anything is sent
DeBruijnAttack ==
    /\ pc = "debruijn"
    /\ \E n \in 1..MaxSubLen : response' = Str(n)
    /\ Emit(<<"utilities.deBruijn!", "crash">>)
    /\ pc' = "crashed"
    /\ UNCHANGED <<session, rolling_code, rf_settings, jamming_variance, j, j_idx, attempt,
                   jam_xmits, j_freq, d_freq, payloads, d_sent, saved, replay,
                   captureVars, callVars, scanVars, stop_key, after_stop>>

Next ==
    \/ PressEnter
    \/ DeBruijnAttack
    \/ SetupJammer
    \/ SetupJammerFails
    \/ JamStartNoJammer
    \/ JamStartSetFreq
    \/ JamStartSetFreqFails
    \/ JamXmit
    \/ JamXmitFails
    \/ JamKeystop
    \/ RecvFrame
    \/ RecvTimeout
    \/ RecvFails
    \/ Encode
    \/ JamStopNoJammer
    \/ JamStop
    \/ JamStopSetFreqFails
    \/ ReplayFirst
    \/ ReplayFirstFails
    \/ ReplaySecond
    \/ ReplaySecondFails
    \/ SaveSecond
    \/ ReplaySavedLoad
    \/ ReplaySavedAnswer
    \/ ReplaySavedOnce
    \/ ReplaySavedPass
    \/ ReplaySavedStop
    \/ ReplaySavedXmitFails

Spec == Init /\ [][Next]_vars

-----------------------------------------------------------------------------
(* SpecWindow: RFCrack.py -r with -U and -L given: windows with no integer  *)
(* strictly between the bounds, and one that holds the metric -60 only      *)

WindowSettings ==
    {[DefaultSettings EXCEPT !.upper_rssi = w[1], !.lower_rssi = w[2]] :
        w \in {<<0 - 60, 0 - 60>>, <<0 - 60, 0 - 59>>, <<DefaultLowerRssi, DefaultUpperRssi>>,
               <<0 - 61, 0 - 59>>}}

WindowInit == StartWith({"rolling"}, "setup", WindowSettings)

\* the steps of attacks.rollingCode
RollingNext ==
    \/ PressEnter
    \/ SetupJammer
    \/ SetupJammerFails
    \/ JamStartNoJammer
    \/ JamStartSetFreq
    \/ JamStartSetFreqFails
    \/ JamXmit
    \/ JamXmitFails
    \/ JamKeystop
    \/ RecvFrame
    \/ RecvTimeout
    \/ RecvFails
    \/ Encode
    \/ JamStopNoJammer
    \/ JamStop
    \/ JamStopSetFreqFails
    \/ ReplayFirst
    \/ ReplayFirstFails
    \/ ReplaySecond
    \/ ReplaySecondFails
    \/ SaveSecond

SpecWindow == WindowInit /\ [][RollingNext]_vars

\* SpecRolling: RFCrack.py -r with the default settings, both radios present and no
\* radio command raising; the script runs on whenever it can take a step and the
\* operator answers when asked: a step that stays possible is taken in the end
RollingInit == Start({"rolling"}, "setup")

\* the steps of attacks.rollingCode in which no radio command raises
SoundNext ==
    \/ PressEnter
    \/ SetupJammer
    \/ JamStartSetFreq
    \/ JamXmit
    \/ JamKeystop
    \/ RecvFrame
    \/ RecvTimeout
    \/ Encode
    \/ JamStop
    \/ ReplayFirst
    \/ ReplaySecond
    \/ SaveSecond

\* every step of rollingCode issues a command, moves on or takes the key press
stepVars == <<pc, trace, stop_key>>

SpecRolling == RollingInit /\ [][SoundNext]_vars /\ WF_stepVars(SoundNext)

-----------------------------------------------------------------------------
(* SpecUpload: one run of RFCrack.py -u on one of SavedFiles *)

UploadInit == Start({"upload"}, "saved_load")

UploadNext ==
    \/ PressEnter
    \/ ReplaySavedLoad
    \/ ReplaySavedLoadFails
    \/ ReplaySavedAnswer
    \/ ReplaySavedOnce
    \/ ReplaySavedPass
    \/ ReplaySavedStop
    \/ ReplaySavedXmitFails

SpecUpload == UploadInit /\ [][UploadNext]_vars

-----------------------------------------------------------------------------
(* SpecCapture: capturePayload(d, True, rf_settings) called on its own, the *)
(* radio delivering any of AllFrames, timeouts and errors                  *)

CaptureInit == Start({"capture"}, "capture")

CaptureNext ==
    \/ PressEnter
    \/ RecvFrame
    \/ RecvTimeout
    \/ RecvFails

SpecCapture == CaptureInit /\ [][CaptureNext]_vars

\* SpecLive: capturePayload(d, False, rf_settings) as replayLiveCapture calls it
LiveInit == Start({"live"}, "capture")

SpecLive == LiveInit /\ [][CaptureNext]_vars

-----------------------------------------------------------------------------
(* SpecScan: one run of findDevices.searchKnownFreqs(d, list) or of          *)
(* findDevices.bruteForceFreq(d, rf_settings, interval), clicker False      *)

ScanInit == Start({"known", "brute"}, "scan")

scanFrame == <<session, rolling_code, rf_settings, jamming_variance, j, j_idx, attempt,
               jam_xmits, j_freq, payloads, d_sent, saved, replay, captureVars, callVars,
               known_frequencies, interval, keyVars, click_log>>

\* mutant: the log opened with 'w', the earlier blocks lost
Sniff_Overwrites(f, at) ==
    /\ Len(sniffed) < MaxScanRecv
    /\ sniffed' = Append(sniffed, f)
    /\ tuned' = Append(tuned, at)
    /\ after_stop' = AfterStop
    /\ \/ \E y \in SniffedPayloads :
             /\ scan_log' = <<saveLogs(f, y)>>
             /\ Emit(<<"d.RFrecv">>)
       \/ /\ UNCHANGED scan_log
          /\ Emit(<<"d.RFrecv.timeout">>)

\* sniffFrequency(d, f, filename, False) with the radio tuned to `at`: one
\* d.RFrecv(timeout=3000); a frame is appended to the log by saveLogs, a timeout
\* is passed over
Sniff(f, at) ==
    /\ Len(sniffed) < MaxScanRecv
    /\ sniffed' = Append(sniffed, f)
    /\ tuned' = Append(tuned, at)
    /\ after_stop' = AfterStop
    /\ \/ \E y \in SniffedPayloads :
             /\ scan_log' = Append(scan_log, saveLogs(f, y))
             /\ Emit(<<"d.RFrecv">>)
       \/ /\ UNCHANGED scan_log
          /\ Emit(<<"d.RFrecv.timeout">>)

\* mutant: the next frequency sniffed without asking keystop()
BruteSniff_NoKeystop ==
    /\ pc = "scan" /\ session = "brute"
    /\ Sniff(current_freq, d_freq)
    /\ current_freq' = current_freq + interval
    /\ d_freq' = current_freq + interval
    /\ UNCHANGED <<scanFrame, pc, scan_pos>>

\* bruteForceFreq: keystop() is False; sniff current_freq, add the interval, retune
BruteSniff ==
    /\ pc = "scan" /\ session = "brute"
    /\ ~stop_key
    /\ Sniff(current_freq, d_freq)
    /\ current_freq' = current_freq + interval
    /\ d_freq' = current_freq + interval
    /\ UNCHANGED <<scanFrame, pc, scan_pos>>

\* mutant: the entry sniffed without tuning the radio to it
KnownSniff_NoRetune(i) ==
    /\ d_freq' = d_freq
    /\ Sniff(known_frequencies[i], d_freq')
    /\ IF i < Len(known_frequencies)
       THEN pc' = "scan_pass" /\ scan_pos' = i + 1
       ELSE pc' = "scan" /\ scan_pos' = 0
    /\ UNCHANGED <<scanFrame, current_freq>>

\* the for loop of searchKnownFreqs at position i: tune to the entry, sniff it;
\* after the last entry control is back at the while test
KnownSniff(i) ==
    /\ d_freq' = known_frequencies[i]
    /\ Sniff(known_frequencies[i], d_freq')
    /\ IF i < Len(known_frequencies)
       THEN pc' = "scan_pass" /\ scan_pos' = i + 1
       ELSE pc' = "scan" /\ scan_pos' = 0
    /\ UNCHANGED <<scanFrame, current_freq>>

\* searchKnownFreqs: keystop() is False, a pass over the list begins with its first entry
KnownPassStart ==
    /\ pc = "scan" /\ session = "known"
    /\ ~stop_key
    /\ KnownSniff(1)

\* searchKnownFreqs: the next entry of the pass under way (keystop() is not asked)
KnownPassNext ==
    /\ pc = "scan_pass"
    /\ KnownSniff(scan_pos)

\* the frequency the next receive is made on
FreqDue ==
    IF session = "brute" THEN current_freq
    ELSE known_frequencies[IF pc = "scan" THEN 1 ELSE scan_pos]

\* d.RFrecv raises something other than ChipconUsbTimeoutException: not caught
ScanRecvFails ==
    /\ \/ pc = "scan" /\ ~stop_key
       \/ pc = "scan_pass"
    /\ Len(sniffed) < MaxScanRecv
    /\ sniffed' = Append(sniffed, FreqDue)
    /\ tuned' = Append(tuned, FreqDue)
    /\ after_stop' = AfterStop
    /\ d_freq' = FreqDue
    /\ Emit(<<"d.RFrecv!", "crash">>)
    /\ pc' = "crashed"
    /\ UNCHANGED <<scanFrame, current_freq, scan_pos, scan_log>>

\* keystop() is True at the while test: the scanner prints where the log is and returns
ScanStop ==
    /\ pc = "scan"
    /\ stop_key
    /\ Emit(<<"print.ScanSaved">>)
    /\ pc' = "done"
    /\ UNCHANGED <<scanFrame, d_freq, current_freq, scan_pos, scan_log, sniffed, tuned,
                   after_stop>>

ScanNext ==
    \/ PressEnter
    \/ BruteSniff
    \/ KnownPassStart
    \/ KnownPassNext
    \/ ScanRecvFails
    \/ ScanStop

SpecScan == ScanInit /\ [][ScanNext]_vars

-----------------------------------------------------------------------------
(* SpecClicker: one run of findDevices.searchKnownFreqs(d, list, True)      *)

ClickerInit == Start({"clicker"}, "scan")

clickFrame == <<session, rolling_code, rf_settings, jamming_variance, j, j_idx, attempt,
                jam_xmits, j_freq, payloads, d_sent, saved, replay, captureVars, callVars,
                known_frequencies, interval, current_freq, keyVars>>

\* what d.RFrecv() hands to the clicker loop: a frame with a payload or an empty one
ClickFrames == SniffedPayloads \cup {<<>>}

\* searchKnownFreqs with clicker True: keystop() is False, the radio is tuned to the
\* first entry and sniffFrequency enters `while True`
ClickerStart ==
    /\ pc = "scan" /\ session = "clicker"
    /\ ~stop_key
    /\ d_freq' = known_frequencies[1]
    /\ scan_pos' = 1
    /\ pc' = "click_loop"
    /\ UNCHANGED <<clickFrame, scan_log, click_log, sniffed, tuned, trace, after_stop>>

\* mutant: the block written to the scanning log the run names
ClickerRecv_WritesScanLog ==
    /\ pc = "click_loop"
    /\ Len(sniffed) < MaxScanRecv
    /\ sniffed' = Append(sniffed, known_frequencies[scan_pos])
    /\ tuned' = Append(tuned, d_freq)
    /\ after_stop' = AfterStop
    /\ \E y \in ClickFrames :
          scan_log' = Append(scan_log, saveLogs(known_frequencies[scan_pos], y))
    /\ Emit(<<"d.RFrecv">>)
    /\ UNCHANGED <<clickFrame, d_freq, scan_pos, click_log, pc>>

\* one pass of `while True` in sniffFrequency: d.RFrecv() returns a frame, which
\* saveLogs appends to ./captures/capturedClicks.log
ClickerRecv ==
    /\ pc = "click_loop"
    /\ Len(sniffed) < MaxScanRecv
    /\ sniffed' = Append(sniffed, known_frequencies[scan_pos])
    /\ tuned' = Append(tuned, d_freq)
    /\ after_stop' = AfterStop
    /\ \E y \in ClickFrames :
          click_log' = Append(click_log, saveLogs(known_frequencies[scan_pos], y))
    /\ Emit(<<"d.RFrecv">>)
    /\ UNCHANGED <<clickFrame, d_freq, scan_pos, scan_log, pc>>

\* one pass of `while True`: d.RFrecv() times out, `pass`
ClickerTimeout ==
    /\ pc = "click_loop"
    /\ Len(sniffed) < MaxScanRecv
    /\ sniffed' = Append(sniffed, known_frequencies[scan_pos])
    /\ tuned' = Append(tuned, d_freq)
    /\ after_stop' = AfterStop
    /\ Emit(<<"d.RFrecv.timeout">>)
    /\ UNCHANGED <<clickFrame, d_freq, scan_pos, scan_log, click_log, pc>>

\* d.RFrecv() raises something else: not caught
ClickerRecvFails ==
    /\ pc = "click_loop"
    /\ Len(sniffed) < MaxScanRecv
    /\ sniffed' = Append(sniffed, known_frequencies[scan_pos])
    /\ tuned' = Append(tuned, d_freq)
    /\ after_stop' = AfterStop
    /\ Emit(<<"d.RFrecv!", "crash">>)
    /\ pc' = "crashed"
    /\ UNCHANGED <<clickFrame, d_freq, scan_pos, scan_log, click_log>>

ClickerNext ==
    \/ PressEnter
    \/ ScanStop
    \/ ClickerStart
    \/ ClickerRecv
    \/ ClickerTimeout
    \/ ClickerRecvFails

SpecClicker == ClickerInit /\ [][ClickerNext]_vars

-----------------------------------------------------------------------------
(* Claims about the capture session (under SpecCapture) *)

Accepts(a) == a.hex # <<>> /\ determineRealTransmission(a.metric, rf_settings)
\* the payloads of the arrivals the classifier accepts, in arrival order
AcceptedArrivals == SelectSeq(arrivals, Accepts)
HexOf(as) == [i \in 1..Len(as) |-> as[i].hex]

\* C5: with every receive successful (no timeout), capturePayload in windowed mode
\* returns exactly the first two frames the classifier accepts, in arrival order,
\* and it returns when the second of them arrives, not before.
C5_ReturnsFirstTwoAccepted ==
    (timeouts = 0 /\ pc # "crashed") =>
        /\ pc = "encode" <=> Len(AcceptedArrivals) >= 2
        /\ pc = "encode" =>
              /\ roll_captures = HexOf(AcceptedArrivals)
              /\ Len(roll_captures) = 2
              /\ Accepts(arrivals[Len(arrivals)])
        /\ pc = "capture" => roll_captures = HexOf(AcceptedArrivals)

\* C5 witness: four frames, only #2 and #4 inside the window, and [#2, #4] returned
C5_Witness_SecondAndFourth ==
    /\ pc = "encode" /\ timeouts = 0 /\ Len(arrivals) = 4
    /\ ~Accepts(arrivals[1]) /\ Accepts(arrivals[2])
    /\ ~Accepts(arrivals[3]) /\ Accepts(arrivals[4])
    /\ arrivals[2].hex # arrivals[4].hex
    /\ roll_captures = <<arrivals[2].hex, arrivals[4].hex>>

\* C6: a timed-out receive is only retried: it appends nothing to the accumulated
\* captures, leaves the accepted count unchanged and does not end the session.
C6_TimeoutOnlyRetried ==
    [][timeouts' > timeouts =>
          /\ roll_captures' = roll_captures
          /\ roll_count' = roll_count
          /\ pc' = pc]_vars

-----------------------------------------------------------------------------
(* Claims about the rolling-code and jamming runs (under Spec) *)

At(ev) == {i \in 1..Len(trace) : trace[i] = ev}
AtAny(evs) == {i \in 1..Len(trace) : trace[i] \in evs}
Before(evs, i) == {k \in 1..(i - 1) : trace[k] \in evs}

SniffRecv == {"d.RFrecv", "d.RFrecv.timeout", "d.RFrecv!"}
SniffXmit == {"d.RFxmit", "d.RFxmit!"}
JamXmitCalls == {"j.RFxmit", "j.RFxmit!"}

\* C1: in every rolling-code run that transmits on the sniff radio, setModeIDLE was
\* issued to the jam radio after the second accepted capture and before the first
\* transmit on the sniff radio, also when a jam-radio command raises.
C1_JamIdledBetweenCaptureAndReplay ==
    session = "rolling" =>
        \A i \in AtAny(SniffXmit) :
            \E k \in Before({"j.setModeIDLE"}, i) :
                Cardinality(Before({"append"}, k)) >= 2

\* C2: in rolling-code mode no setModeIDLE is issued to the jam radio (by jamming
\* 'start' or 'stop') before capturePayload has accepted two captures and returned.
C2_NoJamIdleBeforeTwoCaptures ==
    session = "rolling" =>
        \A k \in At("j.setModeIDLE") :
            /\ Cardinality(Before({"append"}, k)) >= 2
            /\ Before({"return"}, k) # {}
            /\ Len(roll_captures) = 2

\* C2 witness: a rolling-code run whose jam loop ran and ended on the stop key, and
\* whose jamming 'stop' idled the jam radio
C2_Witness_IdledAfterCapture ==
    /\ session = "rolling"
    /\ At("j.RFxmit") # {} /\ At("keystop") # {}
    /\ At("j.setModeIDLE") # {}

\* C3: Failed is terminal: once setupJammer has failed or jamming 'start' has used
\* up its retries, the rolling-code session makes no receive on the sniff radio and
\* no transmit on either radio.
C3_FailedIsTerminal ==
    session = "rolling" =>
        \A i \in AtAny({"print.SetupError", "print.MaxRetries"}) :
            \A k \in (i + 1)..Len(trace) :
                trace[k] \notin (SniffRecv \cup SniffXmit \cup JamXmitCalls)

\* C4: when a run fails after the jam radio has transmitted (retries used up in
\* jamming 'start', or a hardware error other than a timeout in capturePayload),
\* setModeIDLE was issued to the jam radio before the failure is reported.
C4_JamIdledBeforeFailureReported ==
    \A i \in AtAny({"print.MaxRetries", "d.RFrecv!"}) :
        Before({"j.RFxmit"}, i) # {} => Before({"j.setModeIDLE"}, i) # {}

\* the jam transmission is under way just before trace position i: a jam frame was
\* sent and since then the jam loop has not ended and the radio was not idled
JamOngoing(i) ==
    \E k \in Before({"j.RFxmit"}, i) :
        \A m \in (k + 1)..(i - 1) :
            trace[m] \notin {"keystop", "print.MaxRetries", "j.setModeIDLE"}

\* C8: every receive the capture session makes on the sniff radio happens while the
\* jam transmission has been started and has neither ended nor been idled. Stated
\* for the runs in which the jam radio was set up, tuned and has sent a jam frame,
\* and no jam-radio command raised.
C8_JamOverlapsCapture ==
    (/\ session = "rolling"
     /\ At("j.RFxmit") # {}
     /\ AtAny({"print.SetupError", "j.setFreq!", "j.RFxmit!"}) = {})
        => \A i \in AtAny(SniffRecv) : JamOngoing(i)

-----------------------------------------------------------------------------
(* Claims about the attacks, the jam loop and the scanners *)

\* bit i (from 1, most significant first) of a byte string
BitAt(bytes, i) == (bytes[((i - 1) \div 8) + 1] \div Pow(2, 7 - ((i - 1) % 8))) % 2

\* the code w occurs in the bit stream of bytes, read from first bit to last
ContainsCode(bytes, w) ==
    \E i \in 1..(8 * Len(bytes) - Len(w) + 1) :
        \A m \in 1..Len(w) : BitAt(bytes, i + m - 1) = w[m]

\* C13: the de Bruijn attack with the length n the operator typed sends exactly one
\* frame whose bits, read first to last, contain every n-bit code, and sets the
\* radio idle afterwards.
C13_OneFrameCoversEveryCode ==
    (session = "debruijn" /\ pc # "debruijn") =>
        LET n == CHOOSE m \in 1..MaxSubLen : Str(m) = response
        IN  /\ Len(d_sent) = 1
            /\ \A w \in [1..n -> {0, 1}] : ContainsCode(d_sent[1], w)
            /\ trace # <<>> /\ trace[Len(trace)] = "d.setModeIDLE"

\* C15: a capture session observes a cancellation at its next loop boundary: of
\* the receives begun after the stop key was pressed at most the one in progress
\* completes, and no further receive is started.
C15_CancelObservedAtLoopBoundary ==
    session = "capture" => after_stop <= 1

\* C16 (as claimed): in both scanners no receive is started once the stop key is
\* pressed (the receive in progress belongs to the step before the key).
C16_NoReceiveAfterKeystop ==
    session \in {"known", "brute"} => after_stop = 0

\* C16 (amended): bruteForceFreq asks keystop() before every receive and starts
\* none once the key is pressed; searchKnownFreqs asks it once per pass over the
\* list, so the entries left in the pass under way are still received (at most
\* len(list) - 1 receives), and none after the pass.
C16_AtMostThePassUnderWay ==
    /\ session = "brute" => after_stop = 0
    /\ session = "known" =>
          /\ after_stop <= Len(known_frequencies) - 1
          /\ (pc = "scan_pass" /\ stop_key) => after_stop <= scan_pos - 2

\* C16 witness: searchKnownFreqs returned after receiving on the second entry of
\* its list although the key had been pressed during the first
C16_Witness_SecondEntryStillSniffed ==
    /\ session = "known" /\ pc = "done"
    /\ Len(known_frequencies) = 2 /\ Len(sniffed) = 2
    /\ after_stop = 1

\* C17: when rollingCode has finished, the second capture was transmitted exactly
\* if the answer was 'y' or 'Y' and then nothing was saved; for any other answer it
\* was not transmitted, the sniff radio was set idle and the capture was saved.
C17_SecondSentIffYes ==
    (session = "rolling" /\ pc = "done") =>
        IF response \in {"y", "Y"}
        THEN /\ d_sent = <<payloads[1], payloads[2]>>
             /\ saved = <<>> /\ At("write.cap") = {} /\ At("d.setModeIDLE") = {}
        ELSE /\ d_sent = <<payloads[1]>>
             /\ saved = roll_captures[2]
             /\ Cardinality(At("write.cap")) = 1
             /\ Cardinality(At("d.setModeIDLE")) = 1

\* C17 witness: the answer 'Y' and the second capture on the air
C17_Witness_UpperCaseYes ==
    /\ session = "rolling" /\ pc = "done"
    /\ response = "Y" /\ Len(d_sent) = 2

\* C18: the first frame rollingCode transmits on the sniff radio is the decoded
\* first capture, the earlier arrival of the two; it has been sent exactly once
\* when the operator is asked, no answer is read before it, and the second
\* capture is only ever sent after it.
C18_FirstCaptureReplayedFirst ==
    session = "rolling" =>
        /\ Len(d_sent) <= 2
        /\ d_sent # <<>> =>
              /\ d_sent[1] = createBytesFromPayloads(roll_captures)[1]
              /\ roll_from[1] <= roll_from[2]
        /\ Len(d_sent) = 2 => d_sent[2] = createBytesFromPayloads(roll_captures)[2]
        /\ pc = "prompt" => Len(d_sent) = 1 /\ response = ""
        /\ response # "" => d_sent # <<>>

\* C18 witness: both captures replayed, two different frames
C18_Witness_BothReplayed ==
    /\ session = "rolling" /\ pc = "done"
    /\ Len(d_sent) = 2 /\ d_sent[1] # d_sent[2]
    /\ roll_from[1] < roll_from[2]

\* C19: jamming 'start' makes at most `retries` attempts; the attempt counter is the
\* number of attempts that raised; no transmission follows an attempt that ended
\* without error or the report that the retries are used up.
C19_AtMostRetriesAttempts ==
    LET raised == At("j.RFxmit!")
        ended == At("keystop") \cup At("print.MaxRetries")
    IN  /\ Cardinality(raised) <= Retries
        /\ attempt < Retries
        /\ pc = "jam_loop" => attempt = Cardinality(raised)
        /\ \A i \in ended : \A m \in (i + 1)..Len(trace) : trace[m] \notin JamXmitCalls

\* C19 witness: three attempts raised and the jam loop gave up
C19_Witness_RetriesUsedUp ==
    /\ Cardinality(At("j.RFxmit!")) = Retries
    /\ At("print.MaxRetries") # {}

\* C20: while the jam loop runs the jam radio is tuned to rf_settings.frequency +
\* jamming_variance (the variance is 0 in stand-alone jamming), a j.setFreq precedes
\* the first jam transmission, and the sniff radio of a rolling-code run stays on
\* rf_settings.frequency.
C20_JamTunedOffsetSniffOnFrequency ==
    /\ pc = "jam_loop" => j_freq = rf_settings.frequency + jamming_variance
    /\ \A i \in AtAny(JamXmitCalls) : Before({"j.setFreq"}, i) # {}
    /\ session = "jammer" => jamming_variance = 0
    /\ session = "rolling" => d_freq = rf_settings.frequency

\* C20 witness: a rolling-code run jamming 80 kHz above the sniffing frequency
C20_Witness_JammingOffFrequency ==
    /\ session = "rolling" /\ At("j.RFxmit") # {}
    /\ j_freq = DefaultFrequency + DefaultJammingVariance
    /\ d_freq = DefaultFrequency

-----------------------------------------------------------------------------
(* Claims about the display format, the byte packing, the templates and the *)
(* scan log                                                                 *)

\* C23: for an even-length payload printFormatedHex returns, pair after pair in
\* order, a backslash, an x and the two hex digits (twice the input length); for an
\* odd-length payload it returns the empty string (a value, no error).
C23_PairsEscapedOrEmpty ==
    call = "printFormatedHex" =>
        IF Len(arg) % 2 = 0
        THEN /\ Len(ret) = 2 * Len(arg)
             /\ \A i \in 1..(Len(arg) \div 2) :
                   SubSeq(ret, 4 * i - 3, 4 * i)
                     = <<"\\", "x", HexChar(arg[2 * i - 1]), HexChar(arg[2 * i])>>
        ELSE ret = <<>>

\* C23 witness: the payload 0faf formatted as \x0f\xaf
C23_Witness_TwoPairs ==
    /\ call = "printFormatedHex" /\ arg = <<0, 15, 10, 15>>
    /\ ret = <<"\\", "x", "0", "f", "\\", "x", "a", "f">>

RECURSIVE BinValue(_)
\* the number a bit string denotes
BinValue(b) == IF b = <<>> THEN 0 ELSE 2 * BinValue(SubSeq(b, 1, Len(b) - 1)) + b[Len(b)]

\* C24: turnToBytes packs L bits into ceil(L/8) bytes: the first L bits are the
\* input in order, the rest are zero. The bit string bin(int(h,16))[2:] made from a
\* hex payload h has no fixed width: it is the shortest one denoting the value of h
\* (it starts with 1, or is "0"), and that string is what is packed.
C24_PackedLeftAlignedZeroPadded ==
    /\ call = "turnToBytes" =>
          /\ Len(ret) = (Len(arg) + 7) \div 8
          /\ \A i \in 1..(8 * Len(ret)) :
                BitAt(ret, i) = IF i <= Len(arg) THEN arg[i] ELSE 0
    /\ call = "createBytesFromPayloads" =>
          LET b == IntToBin(HexToInt(arg))
          IN  /\ b = <<0>> \/ b[1] = 1
              /\ BinValue(b) = HexToInt(arg)
              /\ ret = <<turnToBytes(b)>>

\* C24 witness: the bits 101 packed into the byte 10100000
C24_Witness_ThreeBits ==
    /\ call = "turnToBytes" /\ arg = <<1, 0, 1>>
    /\ ret = <<160>>

\* C22: when loadDeviceSettingsTemplate returns, every field holds the value of
\* the last line matched to it, in the order of the lines, and the value it had
\* before when no line is matched to it; a line that contains none of the eight
\* keys changes nothing (the load without such lines gives the same settings).
C22_LastMatchingLineWins ==
    (call = "loadDeviceSettingsTemplate" /\ ~ret.raised) =>
        LET lines == arg.file_data
            keyed == SelectSeq(lines, LAMBDA data : MatchedKey(data) # 0)
        IN  /\ \A k \in 1..Len(TemplateKeys) :
                  LET field == TemplateKeys[k]
                      at == {i \in 1..Len(lines) : MatchedKey(lines[i]) = k}
                  IN  IF at = {} THEN ret.settings[field] = arg.settings[field]
                      ELSE LET last == CHOOSE i \in at : \A m \in at : m <= i
                               v == splitData(lines[last]).value
                           IN  IF field = "modulation_type"
                               THEN ret.settings[field] = v
                               ELSE ret.settings[field] = IntOf[v[1]]
            /\ ret = loadDeviceSettingsTemplate(arg.settings, keyed)

\* C22 witness: two frequency lines and a comment between them, the later one kept
C22_Witness_TwoFrequencyLines ==
    /\ call = "loadDeviceSettingsTemplate" /\ ~ret.raised
    /\ arg.file_data = << <<"frequency", ":", "433000000", "\n">>,
                          <<"#", " ", "garage", "\n">>,
                          <<"frequency", " ", ":", " ", "2400", "\n">> >>
    /\ ret.settings.frequency = 2400
    /\ arg.settings.frequency = DefaultFrequency

\* C21: the scan log only grows, by one block per hit: a step with a successful
\* receive appends exactly the block of the frequency sniffed and a payload, every
\* other step of a scanner (a timed-out or failed receive, the stop) leaves the
\* log as it is, the blocks already there included.
C21_ScanLogAppendOnly ==
    [][IF Len(trace') > Len(trace) /\ trace'[Len(trace')] = "d.RFrecv"
       THEN \E y \in SniffedPayloads :
               scan_log' = Append(scan_log, saveLogs(sniffed'[Len(sniffed')], y))
       ELSE scan_log' = scan_log]_vars

\* C21 witness: a log that held a block before the run, after one hit and one timeout
C21_Witness_OldBlockKept ==
    /\ session \in {"known", "brute"}
    /\ Len(scan_log) = 2
    /\ scan_log[1] = saveLogs(SecondKnownFrequency, <<10, 11>>)
    /\ Cardinality(At("d.RFrecv")) = 1 /\ At("d.RFrecv.timeout") # {}

\* C29: at every receive of a scanner the radio is tuned to the frequency handed
\* to sniffFrequency (the one saveLogs writes); bruteForceFreq makes its i-th
\* receive (i = 0, 1, ...) at rf_settings.frequency + i * interval, searchKnownFreqs
\* follows its list in order, cyclically.
C29_TunedToTheLoggedFrequency ==
    session \in {"known", "brute"} =>
        /\ tuned = sniffed
        /\ session = "brute" =>
              \A i \in 1..Len(sniffed) :
                  sniffed[i] = rf_settings.frequency + (i - 1) * interval
        /\ session = "known" =>
              \A i \in 1..Len(sniffed) :
                  sniffed[i] = known_frequencies[((i - 1) % Len(known_frequencies)) + 1]

\* C29 witness: a list of two different frequencies gone through one and a half times
C29_Witness_SecondPass ==
    /\ session = "known"
    /\ known_frequencies = <<DefaultFrequency, SecondKnownFrequency>>
    /\ tuned = <<DefaultFrequency, SecondKnownFrequency, DefaultFrequency>>

-----------------------------------------------------------------------------
(* Claims about the radios and the settings *)

\* C30: when the operator stops the jam loop of a stand-alone run (rolling_code
\* false), j.setModeIDLE is the next command and jamming returns after it; in a
\* rolling-code run the stop of the loop is not followed by an idle, the radio is
\* not idled while capturePayload runs, and every idle of the jam radio is the one
\* jamming 'stop' issues after its setFreq.
C30_StartIdlesOnlyStandAlone ==
    /\ \A i \in At("keystop") :
          IF rolling_code
          THEN i < Len(trace) => trace[i + 1] # "j.setModeIDLE"
          ELSE i < Len(trace) /\ trace[i + 1] = "j.setModeIDLE"
    /\ rolling_code =>
          /\ pc \in {"jam_loop", "capture", "encode", "jam_stop"} => At("j.setModeIDLE") = {}
          /\ \A i \in At("j.setModeIDLE") : i > 1 /\ trace[i - 1] = "j.setFreq"

\* C30 witness: a stand-alone run stopped by the operator, the radio idled last
C30_Witness_StandAloneIdled ==
    /\ session = "jammer" /\ pc = "done"
    /\ At("j.RFxmit") # {}
    /\ Len(trace) >= 2
    /\ trace[Len(trace) - 1] = "keystop" /\ trace[Len(trace)] = "j.setModeIDLE"

\* the sessions of Spec, SpecCapture and SpecScan side by side: every run that is
\* handed the rf_settings object
AttackInit == Init \/ CaptureInit \/ ScanInit

AttackNext == Next \/ CaptureNext \/ ScanNext

SpecAttack == AttackInit /\ [][AttackNext]_vars

\* the commands a step adds to the trace
Issued == {trace'[i] : i \in (Len(trace) + 1)..Len(trace')}

\* C28: no step of rollingCode, jamming, capturePayload or the scanners changes a
\* field of rf_settings, and every j.setFreq of a run, at 'start' and at 'stop',
\* tunes to the same frequency: the one given on the command line plus
\* jamming_variance.
C28_SettingsNeverWritten ==
    [][/\ rf_settings' = rf_settings
       /\ "j.setFreq" \in Issued =>
              j_freq' = DefaultSettings.frequency + jamming_variance]_vars

\* C28 witness: jamming started and stopped in one rolling-code run, both times
\* tuned 80 kHz above the unchanged rf_settings.frequency
C28_Witness_StartedAndStopped ==
    /\ session = "rolling"
    /\ Cardinality(At("j.setFreq")) = 2
    /\ rf_settings = DefaultSettings
    /\ j_freq = DefaultFrequency + DefaultJammingVariance

\* the commands of the two roles, and the dongle each command of the run went to:
\* the j.* commands to the dongle setupJammer opened, the d.* commands to dongle 0
JamRole == {"j.setFreq", "j.setFreq!", "j.RFxmit", "j.RFxmit!", "j.setModeIDLE"}
SniffRole == SniffRecv \cup SniffXmit \cup {"d.setModeIDLE"}
CommandsOn(idx) ==
    {trace[i] : i \in {n \in 1..Len(trace) :
                         \/ trace[n] \in JamRole /\ j_idx = idx
                         \/ trace[n] \in SniffRole /\ SniffIdx = idx}}

\* C26: in a rolling-code run the jam handle is opened on another dongle than the
\* sniff handle; the dongle of the jam handle gets no receive and no command of the
\* sniff role, the dongle of the sniff handle gets no command of the jam role and
\* transmits only the encoded captures, and without a jam handle no jam command is
\* issued at all.
C26_HandlesHaveDisjointRoles ==
    session = "rolling" =>
        /\ j = "RfCat" => j_idx # SniffIdx
        /\ j # "RfCat" => AtAny(JamRole) = {}
        /\ CommandsOn(j_idx) \cap SniffRole = {}
        /\ CommandsOn(SniffIdx) \cap JamRole = {}
        /\ \A k \in 1..Len(d_sent) : \E n \in 1..Len(payloads) : d_sent[k] = payloads[n]

\* C26 witness: a finished rolling-code run in which the jam dongle transmitted and
\* was idled, and the sniff dongle received and replayed
C26_Witness_BothDonglesUsed ==
    /\ session = "rolling" /\ pc = "done"
    /\ {"j.RFxmit", "j.setModeIDLE"} \subseteq CommandsOn(j_idx)
    /\ {"d.RFrecv", "d.RFxmit"} \subseteq CommandsOn(SniffIdx)

-----------------------------------------------------------------------------
(* Claims about capturePayload(d, False, rf_settings) *)

\* the arrivals that carried a payload
NonEmptyArrivals == {n \in 1..Len(arrivals) : arrivals[n].hex # <<>>}
Yes(p) == ~p.raised /\ lower(p.answer) = "y"

\* C25: every non-empty capture received is put to the operator once, in the order
\* received, and to nothing else is the operator asked; capturePayload returns
\* exactly when an answer is 'y' or 'Y', and then returns the capture that answer
\* was given to; after any other answer, or an error of input(), `capture` is
\* cleared and the loop goes on, so that capture is neither asked about again nor
\* returned.
C25_ReturnedOnlyOnYes ==
    session = "live" =>
        /\ {prompts[k].from : k \in 1..Len(prompts)} = NonEmptyArrivals
        /\ \A k \in 1..Len(prompts) :
              /\ prompts[k].hex = arrivals[prompts[k].from].hex
              /\ k > 1 => prompts[k - 1].from < prompts[k].from
              /\ k < Len(prompts) => ~Yes(prompts[k])
        /\ pc = "live_replay" =>
              /\ prompts # <<>> /\ Yes(prompts[Len(prompts)])
              /\ capture = prompts[Len(prompts)].hex
              /\ capture_from = prompts[Len(prompts)].from
        /\ pc = "capture" =>
              /\ \A k \in 1..Len(prompts) : ~Yes(prompts[k])
              /\ capture = <<>>

\* C25 witness: one capture declined, a timeout, an input error on the next
\* capture, and the third capture returned on 'Y'
C25_Witness_ThirdCaptureReturned ==
    /\ session = "live" /\ pc = "live_replay"
    /\ Len(prompts) = 3 /\ timeouts = 1
    /\ prompts[1].answer = "n" /\ prompts[2].raised /\ prompts[3].answer = "Y"

-----------------------------------------------------------------------------
(* Claims about the capture file *)

\* C27: the file rollingCode writes holds roll_captures[1] (the second capture)
\* character for character, and every transmission replaySavedCapture makes from
\* that file is the byte sequence rollingCode had ready as payloads[1], the one
\* ReplaySecond transmits; sent once, it is that one transmission.
C27_SavedFileReplaysSecondCapture ==
    /\ saved # <<>> => Len(roll_captures) = 2 /\ saved = roll_captures[2]
    /\ session = "saved" =>
          /\ replay.payloads = <<payloads[2]>>
          /\ \A k \in 1..Len(replay.sent) : replay.sent[k] = payloads[2]
          /\ (pc = "saved_done" /\ lower(response) # "f") =>
                 replay.sent = <<payloads[2]>>

\* C27 witness: two different captures, the second saved and then replayed once
C27_Witness_ReplayedOnce ==
    /\ session = "saved" /\ pc = "saved_done"
    /\ payloads[1] # payloads[2]
    /\ response = ""
    /\ replay.sent = <<payloads[2]>>

\* the commands issued since the file was read
SinceLoad ==
    LET i == CHOOSE n \in At("readlines") : TRUE
    IN  SubSeq(trace, i + 1, Len(trace))
\* m copies of the sequence s, one after the other
Times(s, m) == [i \in 1..(m * Len(s)) |-> s[((i - 1) % Len(s)) + 1]]

-----------------------------------------------------------------------------
(* Claims about the device templates *)

EarlierKeys == {"frequency", "baud_rate", "channel_bandwidth"}
\* a modulation name the chain takes for the modulation_type line and strip() keeps
PlainName(name) ==
    /\ \A i \in 1..Len(name) : name[i] \notin EarlierKeys \cup {":"}
    /\ Strip(name) = name

-----------------------------------------------------------------------------
(* Claims about the RSSI window and the end of the rolling-code run *)

\* no integer lies strictly between the bounds
EmptyWindow == rf_settings.upper_rssi >= rf_settings.lower_rssi - 1

\* C33: with no integer strictly between upper_rssi and lower_rssi the run starts
\* all the same (nothing checks the bounds), no capture is ever appended,
\* capturePayload does not return and jamming 'stop' is not called, whatever
\* frames arrive: the run stays in capturePayload unless d.RFrecv raises.
C33_EmptyWindowNeverReturns ==
    (session = "rolling" /\ EmptyWindow) =>
        /\ pc \in {"setup", "jam_start", "jam_loop", "capture", "crashed"}
        /\ roll_captures = <<>> /\ roll_count = 0
        /\ At("append") = {} /\ At("return") = {}
        /\ AtAny({"print.JammingStopped", "j.setModeIDLE", "d.RFxmit"}) = {}
        /\ \A n \in 1..Len(arrivals) : ~Accepts(arrivals[n])

\* C33 witness: upper and lower bound swapped, the jam loop left, MaxRecv frames
\* with a payload received, capturePayload still listening
C33_Witness_StillListening ==
    /\ session = "rolling" /\ EmptyWindow
    /\ rf_settings.upper_rssi = DefaultLowerRssi
    /\ pc = "capture" /\ At("j.RFxmit") # {}
    /\ Len(arrivals) = MaxRecv
    /\ \A n \in 1..Len(arrivals) : arrivals[n].hex # <<>>

\* C34: at the end of every rolling-code run (after ReplaySecond or SaveSecond)
\* setModeIDLE has been issued to the jam radio, and to the sniff radio after its
\* last transmission.
C34_BothRadiosIdleAtEnd ==
    (session = "rolling" /\ pc = "done") =>
        /\ At("j.setModeIDLE") # {}
        /\ \A i \in AtAny(SniffXmit) : \E k \in At("d.setModeIDLE") : k > i

\* no radio was missing and no radio command has raised so far
NoHardwareError ==
    /\ j # "None"
    /\ AtAny({"print.SetupError", "j.setFreq!", "j.RFxmit!", "d.RFrecv!", "d.RFxmit!"}) = {}
\* the sniff radio has delivered two frames with a payload and a metric in the window
TwoAccepted == Cardinality({n \in 1..Len(arrivals) : Accepts(arrivals[n])}) >= 2
\* rollingCode is over: the jammer stopped, the first capture sent first
Terminated ==
    /\ pc = "done"
    /\ At("print.JammingStopped") # {}
    /\ d_sent # <<>> /\ d_sent[1] = payloads[1]

\* C35: in a rolling-code run with the jam radio set up and no hardware error,
\* once the operator has pressed Enter the jam loop is left, and once the sniff
\* radio has delivered two frames inside the window the run gets to its end with
\* the jammer stopped and the first capture transmitted.
C35_RollingCodeTerminates ==
    /\ (session = "rolling" /\ stop_key) ~> (NoHardwareError /\ pc # "jam_loop")
    /\ (session = "rolling" /\ TwoAccepted) ~> (NoHardwareError /\ Terminated)

\* C35 witness: a run without hardware error that ended after two accepted frames
C35_Witness_TerminatedCleanly ==
    /\ session = "rolling" /\ NoHardwareError /\ TwoAccepted /\ Terminated
    /\ At("keystop") # {}

-----------------------------------------------------------------------------
(* Claims about the recursion of the de Bruijn generator *)

\* C36: generate_de_bruijn_sequence returns, the calls of db nest k * n deep and no
\* deeper, db(t, p) is entered only with 1 <= p <= t <= k * n, and every subscript
\* used on the working array a is within 0 .. k * n - 1.
C36_DepthAtMostCells ==
    call = "generate_de_bruijn_sequence" =>
        LET k == Arity(arg.alphabet)
            run == DbRun(k, arg.n)
        IN  /\ run.depth = k * arg.n
            /\ run.entered_ok
            /\ 0 <= run.lo /\ run.hi <= k * arg.n - 1
            /\ ret = generate_de_bruijn_sequence(arg.alphabet, arg.n)

\* C36 witness: a call with MaxCells cells, the recursion MaxCells deep, the last
\* cell of a used
C36_Witness_DeepestCall ==
    /\ call = "generate_de_bruijn_sequence"
    /\ Arity(arg.alphabet) * arg.n = MaxCells
    /\ DbRun(Arity(arg.alphabet), arg.n).depth = MaxCells
    /\ DbRun(Arity(arg.alphabet), arg.n).hi = MaxCells - 1

-----------------------------------------------------------------------------
(* Claims about the clicker mode and the metric *)

\* C37: once searchKnownFreqs with clicker True has called sniffFrequency, that
\* call does not return: every receive is made with the radio on the first entry
\* of the list, the radio is tuned to no other entry, keystop() is not asked again
\* (a key pressed stops nothing), and every frame received, an empty one included,
\* is one more block of ./captures/capturedClicks.log and of no other log.
C37_ClickerStaysOnFirstFrequency ==
    session = "clicker" =>
        /\ \A i \in 1..Len(sniffed) :
              sniffed[i] = known_frequencies[1] /\ tuned[i] = known_frequencies[1]
        /\ d_freq \in {rf_settings.frequency, known_frequencies[1]}
        /\ (sniffed # <<>> \/ pc = "click_loop") =>
              /\ pc \in {"click_loop", "crashed"}
              /\ At("print.ScanSaved") = {} /\ At("keystop") = {}
              /\ scan_pos = 1
        /\ \E old \in EarlierLogs :
              /\ Len(click_log) = Len(old) + Cardinality(At("d.RFrecv"))
              /\ SubSeq(click_log, 1, Len(old)) = old
              /\ \A k \in (Len(old) + 1)..Len(click_log) :
                    \E y \in ClickFrames : click_log[k] = saveLogs(known_frequencies[1], y)
        /\ scan_log = <<>>

\* C37 witness: a list of two different frequencies, Enter pressed and two more
\* receives made after it, an empty frame logged, still in the loop
C37_Witness_KeyPressedStillSniffing ==
    /\ session = "clicker" /\ pc = "click_loop"
    /\ Len(known_frequencies) = 2 /\ known_frequencies[1] # known_frequencies[2]
    /\ stop_key /\ after_stop >= 2
    /\ click_log # <<>>
    /\ click_log[Len(click_log)] = saveLogs(known_frequencies[1], <<>>)

\* the register byte getRSSI can hand back
RegisterBytes == 0..255

\* C38: the metric paired with a received frame is 0 minus the RSSI register byte,
\* so within -255 .. 0 for every byte; when reading or converting the register
\* fails the frame is received all the same (capture is its hex) and its metric
\* is 0, never the metric an earlier frame left in signal_strength.
C38_MetricIsMinusRawOrZero ==
    /\ \A r \in RegisterBytes :
          LET m == Metric([hex |-> <<>>, rssi_ok |-> TRUE, raw |-> r]) IN
          m = 0 - r /\ m \in -255..0
    /\ \A i \in 1..Len(arrivals) :
          LET a == arrivals[i] IN
          /\ a.metric \in -255..0
          /\ a.rssi_ok => a.metric = 0 - a.raw
          /\ ~a.rssi_ok => a.metric = 0
    /\ capture_from = Len(arrivals)
    /\ capture_from > 0 =>
          /\ capture = arrivals[capture_from].hex
          /\ signal_strength = arrivals[capture_from].metric

\* C38 witness: a frame with a metric below 0, then a frame whose register read
\* failed: it is the frame in hand and its metric is 0
C38_Witness_FailedReadAfterStrongFrame ==
    /\ Len(arrivals) >= 2
    /\ LET n == Len(arrivals) IN
          /\ arrivals[n - 1].rssi_ok /\ arrivals[n - 1].metric < 0
          /\ ~arrivals[n].rssi_ok
          /\ arrivals[n].hex # arrivals[n - 1].hex
          /\ capture_from = n /\ signal_strength = 0 /\ capture = arrivals[n].hex
=============================================================================
